---- MODULE Spec2Model ----
(***************************************************************************)
(* Model of the realtime API client core of fxprotrades-bot:               *)
(*   DerivAPI            src/src/lib/deriv-api-enhanced.ts                 *)
(*   MarketDataService   src/unnamed/part_005 (tick subscriptions)         *)
(*   ContractManager     src/unnamed/part_003 (buy / sell / contract push) *)
(* The broker endpoint is the environment: it answers requests that were   *)
(* written to an open socket and pushes subscription messages.             *)
(***************************************************************************)
EXTENDS Integers, Sequences, FiniteSets, TLC

(* ------------------------------ bounds -------------------------------- *)
MaxSock == 3          \* sockets ever created (request-level specification)
MaxTradeSock == 2     \* sockets ever created (trading specification)
MaxChain == 7         \* sockets ever created (connection-level specification)
MaxUserConnect == 1   \* explicit connect() calls by the application
MaxReq == 3           \* request ids handed out
MaxCalls == 3         \* promise-returning operations issued by callers
MaxTrades == 2        \* buyContract / sellContract calls issued
MaxClock == 2         \* values Date.now() takes
MaxAcctSock == 2      \* sockets ever created (account specification)
MaxAcctCalls == 2     \* authenticate / switchAccount calls issued
MaxAcctReq == 8       \* request ids handed out (account specification)
MaxTicks == 2         \* ticks the broker produces (request-level specification)
MaxHistTicks == 1006  \* ticks the broker produces (tick history specification)
MaxAlertTicks == 4    \* ticks the broker produces (price alert specification)
MaxAlerts == 1        \* price alerts created
MaxPings == 1         \* heartbeats sent

(* ------------------------- program constants -------------------------- *)
maxReconnectAttempts == 5
reconnectDelay == 1000

Symbols == {"R_100"}
LoginIds == {"CR1"}
Profits == {-1, 1}

VARIABLES
    (* DerivAPI fields *)
    ws,                     \* current socket id, 0 = null
    requestId,
    callbacks,              \* req id -> [op, arg, call, via]
    subscriptionCallbacks,  \* sub id -> handler [kind, key, h]
    subscriptions,          \* insertion-ordered list of [id, type]
    connectionState,
    reconnectAttempts,
    keepAliveInterval,      \* 0 = null, else the id of the interval timer
    isAuthorized,
    currentAccount,         \* "" = null
    (* browser runtime *)
    sock,                   \* socket id -> readyState
    nsock,                  \* sockets created so far
    timers,                 \* delays (ms) of the pending reconnect timeouts
    intervals,              \* ids of the live keep-alive interval timers
    (* broker *)
    wire,                   \* requests the broker holds unanswered
    srvSubs,                \* subscriptions live on the broker side
    (* callers *)
    calls,                  \* promises handed to callers
    userConnects,           \* explicit connect() calls so far
    userDisconnected,       \* disconnect() was called, no connect() since
    (* MarketDataService *)
    tickSubscriptions,      \* symbol -> sub id, 0 absent
    tickIssued,             \* <<req id, symbol>> of every subscribeToTicks sent
    tickCancelled,          \* req ids of the handlers the caller unsubscribed
    staleTick,              \* a cancelled handler received a message
    (* ContractManager *)
    activeContracts,        \* contract key -> the Contract object stored there
    contractObjs,           \* Contract objects, by broker contract id
    contractSubscriptions,  \* broker contract id -> sub id
    now,                    \* Date.now()
    activeProposals,        \* ids of the quotes stored
    (* AccountService *)
    accounts,               \* login id -> [isActive, balance]
    activeAccount,          \* AccountService.currentAccount, "" = null
    balanceSubscriptions,   \* login id -> sub id
    transactionHistory,     \* login ids with a stored statement
    profitHistory,          \* login ids with a stored profit table
    (* broker session *)
    srvAccount,             \* socket id -> login the session is authorized for
    (* ContractManager strategies *)
    strategies,             \* insertion-ordered list of the stored strategies
    manage,                 \* where a running autoManageContracts() stands
    (* MarketDataService tick data *)
    priceHistory,           \* symbol -> list of the retained ticks
    priceAlerts,            \* insertion-ordered list of the price alerts
    tickEpoch,              \* epoch of the last tick the broker produced
    (* RiskManager / indicator calls *)
    calcIn,                 \* arguments of the calculation requested
    calcOut,                \* what it returned
    (* history *)
    closesSinceOpen,        \* unexpected closes since the last successful open
    (* service shutdown *)
    cleanup                 \* where the cleanup() of each service stands

apiVars == <<ws, requestId, callbacks, subscriptionCallbacks, subscriptions,
             connectionState, reconnectAttempts, keepAliveInterval,
             isAuthorized, currentAccount>>
runVars == <<sock, nsock, timers, intervals>>
srvVars == <<wire, srvSubs>>
userVars == <<calls, userConnects, userDisconnected>>
mdVars == <<tickSubscriptions, tickIssued, tickCancelled, staleTick>>
cmVars == <<activeContracts, contractObjs, contractSubscriptions, now>>
\* The DerivAPI fields the services never touch.
connVars == <<ws, connectionState, reconnectAttempts, keepAliveInterval>>
acctVars == <<accounts, activeAccount, balanceSubscriptions,
              transactionHistory, profitHistory>>
svcVars == <<acctVars, srvAccount, activeProposals>>
stratVars == <<strategies, manage>>
tickVars == <<priceHistory, priceAlerts, tickEpoch>>
calcVars == <<calcIn, calcOut>>
extVars == <<stratVars, tickVars, calcVars, closesSinceOpen, cleanup>>
vars == <<apiVars, runVars, srvVars, userVars, mdVars, cmVars, svcVars,
          extVars>>

(* ------------------------------ helpers ------------------------------- *)
Put(f, k, v) == [x \in DOMAIN f \cup {k} |-> IF x = k THEN v ELSE f[x]]
Del(f, k) == [x \in DOMAIN f \ {k} |-> f[x]]
Empty == [x \in {} |-> 0]

\* WebSocket.readyState === WebSocket.OPEN on the current socket
IsOpen == ws # 0 /\ sock[ws] = "open"

\* The part of the state one send() touches.
Cur == [requestId |-> requestId, callbacks |-> callbacks, wire |-> wire]

\* A send that writes the message under the current id without advancing the
\* counter.
sendReusingId(st, op, arg, call) ==
    IF ~IsOpen
    THEN st
    ELSE [requestId |-> st.requestId,
          callbacks |-> Put(st.callbacks, st.requestId,
                            [op |-> op, arg |-> arg, call |-> call, via |-> ws]),
          wire |-> st.wire \cup
                   {[s |-> ws, req |-> st.requestId, op |-> op, arg |-> arg]}]

\* DerivAPI.send: refused (nothing changes) unless the socket is open;
\* otherwise takes the next id, stores the callback, writes the message.
send(st, op, arg, call) ==
    IF ~IsOpen
    THEN st
    ELSE [requestId |-> st.requestId + 1,
          callbacks |-> Put(st.callbacks, st.requestId,
                            [op |-> op, arg |-> arg, call |-> call, via |-> ws]),
          wire |-> st.wire \cup
                   {[s |-> ws, req |-> st.requestId, op |-> op, arg |-> arg]}]

\* new Promise((resolve, reject) => this.send(request, cb)): the promise the
\* caller gets; it settles only from the stored callback.
NewCall(op, arg) == Append(calls, [op |-> op, arg |-> arg, st |-> "pending",
                                   sent |-> IsOpen])

Settle(cs, call, ok) ==
    IF call = 0 THEN cs
    ELSE [cs EXCEPT ![call].st = IF ok THEN "resolved" ELSE "rejected"]

CanSend(n) == requestId + n - 1 <= MaxReq

(* ------------------------------- Init --------------------------------- *)
\* No calculation has been requested.
NoCalc == [kind |-> "none"]

\* No service has been asked to clean up.
NoCleanup == [cm |-> [st |-> "idle", pos |-> 0],
              md |-> [st |-> "idle", left |-> 0],
              acct |-> [st |-> "idle", left |-> 0]]

\* State after `new DerivAPI()` (the constructor has called connect()) and
\* after the services were constructed over it.
InitProgram ==
    /\ ws = 1
    /\ requestId = 1
    /\ callbacks = Empty
    /\ subscriptionCallbacks = Empty
    /\ subscriptions = <<>>
    /\ connectionState = "disconnected"
    /\ reconnectAttempts = 0
    /\ keepAliveInterval = 0
    /\ isAuthorized = FALSE
    /\ currentAccount = ""
    /\ sock = [s \in 1..MaxChain + 1 |-> IF s = 1 THEN "connecting" ELSE "none"]
    /\ nsock = 1
    /\ timers = <<>>
    /\ intervals = {}
    /\ wire = {}
    /\ srvSubs = {}
    /\ calls = <<>>
    /\ userConnects = 0
    /\ userDisconnected = FALSE
    /\ tickSubscriptions = [y \in Symbols |-> 0]
    /\ tickIssued = {}
    /\ tickCancelled = {}
    /\ staleTick = FALSE
    /\ activeContracts = Empty
    /\ contractObjs = Empty
    /\ contractSubscriptions = Empty
    /\ now = 1
    /\ activeProposals = {}
    /\ accounts = Empty
    /\ activeAccount = ""
    /\ balanceSubscriptions = Empty
    /\ transactionHistory = {}
    /\ profitHistory = {}
    /\ srvAccount = [s \in 1..MaxChain + 1 |-> ""]
    /\ strategies = <<>>
    /\ manage = [st |-> "idle", call |-> 0, pos |-> 0, runs |-> 0]
    /\ priceHistory = [y \in Symbols |-> <<>>]
    /\ priceAlerts = <<>>
    /\ tickEpoch = 0
    /\ closesSinceOpen = 0
    /\ cleanup = NoCleanup

Init ==
    /\ InitProgram
    /\ calcIn = NoCalc
    /\ calcOut = NoCalc

(* ------------------------- connection manager ------------------------- *)
\* connect() called by the application.
Connect(limit) ==
    /\ userConnects < MaxUserConnect
    /\ nsock < limit
    /\ nsock' = nsock + 1
    /\ ws' = nsock'
    /\ sock' = [sock EXCEPT ![nsock'] = "connecting"]
    /\ userConnects' = userConnects + 1
    /\ userDisconnected' = FALSE
    /\ UNCHANGED <<requestId, callbacks, subscriptionCallbacks, subscriptions,
                   connectionState, reconnectAttempts, keepAliveInterval,
                   isAuthorized, currentAccount, timers, intervals, calls>>
    /\ UNCHANGED <<srvVars, mdVars, cmVars>>
    /\ UNCHANGED svcVars
    /\ UNCHANGED extVars

\* ws.onopen of socket s (startKeepAlive overwrites the stored handle).
OnOpen(s) ==
    /\ sock[s] = "connecting"
    /\ sock' = [sock EXCEPT ![s] = "open"]
    /\ connectionState' = "connected"
    /\ reconnectAttempts' = 0
    /\ keepAliveInterval' = s
    /\ intervals' = intervals \cup {s}
    /\ closesSinceOpen' = 0
    /\ UNCHANGED <<ws, requestId, callbacks, subscriptionCallbacks, subscriptions,
                   isAuthorized, currentAccount, nsock, timers>>
    /\ UNCHANGED <<srvVars, userVars, mdVars, cmVars>>
    /\ UNCHANGED svcVars
    /\ UNCHANGED <<stratVars, tickVars, calcVars, cleanup>>

\* The state ws.onclose leaves in connectionState.
StateAfterClose(attempts) ==
    IF attempts < maxReconnectAttempts THEN "reconnecting" ELSE "error"

\* The delay of the reconnect ws.onclose schedules.
Backoff(attempts) == reconnectDelay * 2 ^ attempts

\* ws.onclose of socket s: the socket is closed by the network, the broker
\* or a close() the client asked for.
OnClose(s) ==
    /\ sock[s] \in {"connecting", "open", "closing"}
    /\ sock' = [sock EXCEPT ![s] = "closed"]
    /\ isAuthorized' = FALSE
    /\ intervals' = intervals \ {keepAliveInterval}
    /\ keepAliveInterval' = 0
    /\ connectionState' = StateAfterClose(reconnectAttempts)
    /\ timers' = IF reconnectAttempts < maxReconnectAttempts
                 THEN Append(timers, Backoff(reconnectAttempts))
                 ELSE timers
    /\ wire' = {m \in wire : m.s # s}
    /\ srvSubs' = {m \in srvSubs : m.s # s}
    /\ UNCHANGED <<ws, requestId, callbacks, subscriptionCallbacks, subscriptions,
                   reconnectAttempts, currentAccount, nsock>>
    /\ UNCHANGED <<userVars, mdVars, cmVars>>
    /\ srvAccount' = [srvAccount EXCEPT ![s] = ""]
    /\ closesSinceOpen' = IF sock[s] = "closing" THEN closesSinceOpen
                          ELSE closesSinceOpen + 1
    /\ UNCHANGED <<acctVars, activeProposals>>
    /\ UNCHANGED <<stratVars, tickVars, calcVars, cleanup>>

\* The setTimeout callback of ws.onclose: reconnectAttempts++, connect().
ReconnectTimer(i, limit) ==
    /\ i \in 1..Len(timers)
    /\ nsock < limit
    /\ timers' = [j \in 1..Len(timers) - 1 |-> IF j < i THEN timers[j] ELSE timers[j + 1]]
    /\ reconnectAttempts' = reconnectAttempts + 1
    /\ nsock' = nsock + 1
    /\ ws' = nsock'
    /\ sock' = [sock EXCEPT ![nsock'] = "connecting"]
    /\ UNCHANGED <<requestId, callbacks, subscriptionCallbacks, subscriptions,
                   connectionState, keepAliveInterval, isAuthorized,
                   currentAccount, intervals>>
    /\ UNCHANGED <<srvVars, userVars, mdVars, cmVars>>
    /\ UNCHANGED svcVars
    /\ UNCHANGED extVars

\* DerivAPI.unsubscribe(subId) up to its send: both registry entries go,
\* then a forget request is sent for promise `call`.
unsubscribe(st, subId, call) == send(st, "forget", subId, call)

RECURSIVE unsubscribeAllFrom(_, _)
\* DerivAPI.unsubscribeAll: unsubscribe every registered id, in Map order.
unsubscribeAllFrom(st, subs) ==
    IF subs = <<>> THEN st
    ELSE unsubscribeAllFrom(unsubscribe(st, Head(subs).id, 0), Tail(subs))

\* Array.from(this.subscriptions.keys())
SubIds(subs) == {subs[i].id : i \in 1..Len(subs)}

\* What ws.close(1000, ...) does to the readyState.
CloseCall(rs) == IF rs \in {"connecting", "open"} THEN "closing" ELSE rs

\* DerivAPI.disconnect
Disconnect ==
    /\ IsOpen => CanSend(Len(subscriptions))
    /\ LET st == unsubscribeAllFrom(Cur, subscriptions) IN
        /\ requestId' = st.requestId
        /\ callbacks' = st.callbacks
        /\ wire' = st.wire
    /\ intervals' = intervals \ {keepAliveInterval}
    /\ keepAliveInterval' = 0
    /\ subscriptionCallbacks' =
          [id \in DOMAIN subscriptionCallbacks \ SubIds(subscriptions)
              |-> subscriptionCallbacks[id]]
    /\ subscriptions' = <<>>
    /\ sock' = IF ws = 0 THEN sock ELSE [sock EXCEPT ![ws] = CloseCall(@)]
    /\ connectionState' = "disconnected"
    /\ isAuthorized' = FALSE
    /\ currentAccount' = ""
    /\ userDisconnected' = TRUE
    /\ UNCHANGED <<ws, reconnectAttempts, nsock, timers, srvSubs, calls,
                   userConnects>>
    /\ UNCHANGED <<mdVars, cmVars>>
    /\ UNCHANGED svcVars
    /\ UNCHANGED extVars

(* ----------------------- request/response correlator ------------------ *)
\* A message of the broker reaches ws.onmessage only while the socket is open.
Deliverable(m) == m \in wire /\ sock[m.s] = "open"

\* callbacks.delete(req_id) after the callback ran (if one is stored).
Answered(req) == IF req \in DOMAIN callbacks THEN Del(callbacks, req) ELSE callbacks

CallOf(req) == IF req \in DOMAIN callbacks THEN callbacks[req].call ELSE 0

\* The callback of the keep-alive interval i runs: it pings if the current
\* socket is open (DerivAPI.ping sends { ping: 1 }; nobody holds its promise).
KeepAliveTick(i) ==
    /\ i \in intervals
    /\ IsOpen => requestId <= MaxPings
    /\ LET st == send(Cur, "ping", 0, 0) IN
        /\ requestId' = st.requestId
        /\ callbacks' = st.callbacks
        /\ wire' = st.wire
    /\ UNCHANGED <<connVars, subscriptionCallbacks, subscriptions, isAuthorized,
                   currentAccount, srvSubs>>
    /\ UNCHANGED <<runVars, userVars, mdVars, cmVars, svcVars, extVars>>

\* The pong arrives: the callback of ping settles its promise.
RespPing(m) ==
    /\ Deliverable(m) /\ m.op = "ping"
    /\ wire' = wire \ {m}
    /\ callbacks' = Answered(m.req)
    /\ UNCHANGED <<connVars, requestId, subscriptionCallbacks, subscriptions,
                   isAuthorized, currentAccount, srvSubs>>
    /\ UNCHANGED <<runVars, userVars, mdVars, cmVars, svcVars, extVars>>

\* DerivAPI.authorize(token)
Authorize ==
    /\ Len(calls) < MaxCalls
    /\ IsOpen => CanSend(1)
    /\ calls' = NewCall("authorize", 0)
    /\ LET st == send(Cur, "authorize", 0, Len(calls) + 1) IN
        /\ requestId' = st.requestId
        /\ callbacks' = st.callbacks
        /\ wire' = st.wire
    /\ UNCHANGED <<ws, subscriptionCallbacks, subscriptions, connectionState,
                   reconnectAttempts, keepAliveInterval, isAuthorized,
                   currentAccount, srvSubs, userConnects, userDisconnected>>
    /\ UNCHANGED <<runVars, mdVars, cmVars>>
    /\ UNCHANGED svcVars
    /\ UNCHANGED extVars

\* The authorize response arrives: error -> reject, else the flag and the
\* account are set and the promise resolves.
RespAuthorize(m, ok, login) ==
    /\ Deliverable(m) /\ m.op = "authorize"
    /\ wire' = wire \ {m}
    /\ callbacks' = Answered(m.req)
    /\ calls' = Settle(calls, CallOf(m.req), ok)
    /\ isAuthorized' = IF ok THEN TRUE ELSE isAuthorized
    /\ currentAccount' = IF ok THEN login ELSE currentAccount
    /\ UNCHANGED <<ws, requestId, subscriptionCallbacks, subscriptions,
                   connectionState, reconnectAttempts, keepAliveInterval,
                   srvSubs, userConnects, userDisconnected>>
    /\ UNCHANGED <<runVars, mdVars, cmVars>>
    /\ UNCHANGED svcVars
    /\ UNCHANGED extVars

\* The forget response arrives (DerivAPI.unsubscribe's callback).
RespForget(m, ok) ==
    /\ Deliverable(m) /\ m.op = "forget"
    /\ wire' = wire \ {m}
    /\ srvSubs' = IF ok THEN {x \in srvSubs : ~(x.s = m.s /\ x.id = m.arg)}
                  ELSE srvSubs
    /\ callbacks' = Answered(m.req)
    /\ calls' = Settle(calls, CallOf(m.req), ok)
    /\ UNCHANGED <<ws, requestId, subscriptionCallbacks, subscriptions,
                   connectionState, reconnectAttempts, keepAliveInterval,
                   isAuthorized, currentAccount, userConnects, userDisconnected>>
    /\ UNCHANGED <<runVars, mdVars, cmVars>>
    /\ UNCHANGED svcVars
    /\ UNCHANGED extVars

(* ------------------ subscription registry / market data --------------- *)
\* subscriptions.delete(subId) on the insertion-ordered Map
RemoveSub(subs, subId) == SelectSeq(subs, LAMBDA x : x.id # subId)

\* subscriptions.set(subId, info) on the insertion-ordered Map
AddSub(subs, subId, type) ==
    IF \E i \in 1..Len(subs) : subs[i].id = subId
    THEN subs
    ELSE Append(subs, [id |-> subId, type |-> type])

\* The tick handler of MarketDataService runs for handler h: a handler the
\* caller has unsubscribed still receiving a message is recorded.
TickHandled(h) == staleTick \/ h \in tickCancelled

\* "Keep only last 1000 ticks"
HistoryLimit == 1000

\* response.tick of a message that carries no tick (an error response).
Undefined == [epoch |-> 0, quote |-> 0]

\* MarketDataService.addTickToHistory(symbol, tick) on the list stored for
\* the symbol: push, then one shift() if the list got longer than the limit.
addTickToHistory(history, tick) ==
    LET h == Append(history, tick) IN
    IF Len(h) > HistoryLimit THEN Tail(h) ELSE h

\* The trigger test of checkPriceAlerts that compares the new price alone.
ShouldTriggerOnLevel(condition, previousPrice, currentPrice, targetPrice) ==
    CASE condition \in {"above", "crosses_above"} -> currentPrice > targetPrice
      [] condition \in {"below", "crosses_below"} -> currentPrice < targetPrice

\* The switch of checkPriceAlerts.
ShouldTrigger(condition, previousPrice, currentPrice, targetPrice) ==
    CASE condition = "above" -> currentPrice > targetPrice
      [] condition = "below" -> currentPrice < targetPrice
      [] condition = "crosses_above" ->
            previousPrice <= targetPrice /\ currentPrice > targetPrice
      [] condition = "crosses_below" ->
            previousPrice >= targetPrice /\ currentPrice < targetPrice

\* The loop body of checkPriceAlerts for one alert of the symbol that is
\* active: previousPrice is alert.currentPrice || currentPrice (0 = not
\* recorded yet), the price is recorded, and a triggered alert is switched
\* off, stamped and its callback called (fired counts the calls).
AlertChecked(alert, currentPrice, at) ==
    LET previousPrice == IF alert.currentPrice # 0 THEN alert.currentPrice
                         ELSE currentPrice IN
    IF ShouldTrigger(alert.condition, previousPrice, currentPrice,
                     alert.targetPrice)
    THEN [alert EXCEPT !.currentPrice = currentPrice, !.isActive = FALSE,
                       !.triggeredAt = at, !.fired = @ + 1]
    ELSE [alert EXCEPT !.currentPrice = currentPrice]

\* MarketDataService.checkPriceAlerts(symbol, currentPrice)
checkPriceAlerts(alerts, y, currentPrice, at) ==
    [i \in 1..Len(alerts) |->
        IF alerts[i].symbol # y \/ ~alerts[i].isActive THEN alerts[i]
        ELSE AlertChecked(alerts[i], currentPrice, at)]

\* MarketDataService.subscribeToTicks(symbol, onTick)
SubscribeToTicks(y) ==
    /\ IsOpen => CanSend(1)
    /\ LET st == send(Cur, "ticks", y, 0) IN
        /\ requestId' = st.requestId
        /\ callbacks' = st.callbacks
        /\ wire' = st.wire
    /\ tickIssued' = IF IsOpen THEN tickIssued \cup {<<requestId, y>>} ELSE tickIssued
    /\ UNCHANGED <<ws, subscriptionCallbacks, subscriptions, connectionState,
                   reconnectAttempts, keepAliveInterval, isAuthorized,
                   currentAccount, srvSubs, tickSubscriptions, tickCancelled,
                   staleTick>>
    /\ UNCHANGED <<runVars, userVars, cmVars>>
    /\ UNCHANGED svcVars
    /\ UNCHANGED extVars

\* The first response to a ticks subscribe request. With a subscription id
\* the handler is registered, onReady stores the id under the symbol, and the
\* same message is then routed to the handler just registered; without one
\* (an error) onUpdate gets the response directly.
RespSubscribeTicks(m, ok, q, limit) ==
    /\ Deliverable(m) /\ m.op = "ticks"
    /\ ok => tickEpoch < limit
    /\ wire' = wire \ {m}
    /\ callbacks' = Answered(m.req)
    /\ IF ok
       THEN /\ subscriptionCallbacks' =
                  Put(subscriptionCallbacks, m.req,
                      [kind |-> "ticks", key |-> m.arg, h |-> m.req])
            /\ subscriptions' = AddSub(subscriptions, m.req, "ticks")
            /\ tickSubscriptions' = [tickSubscriptions EXCEPT ![m.arg] = m.req]
            /\ srvSubs' = srvSubs \cup
                  {[s |-> m.s, id |-> m.req, kind |-> "ticks", key |-> m.arg]}
            /\ staleTick' = TickHandled(m.req)
            /\ tickEpoch' = tickEpoch + 1
            /\ priceHistory' =
                  [priceHistory EXCEPT ![m.arg] =
                      addTickToHistory(@, [epoch |-> tickEpoch', quote |-> q])]
            /\ priceAlerts' = checkPriceAlerts(priceAlerts, m.arg, q, tickEpoch')
       ELSE /\ priceHistory' =
                  [priceHistory EXCEPT ![m.arg] = addTickToHistory(@, Undefined)]
            /\ UNCHANGED <<subscriptionCallbacks, subscriptions,
                           tickSubscriptions, srvSubs, staleTick, tickEpoch,
                           priceAlerts>>
    /\ UNCHANGED <<ws, requestId, connectionState, reconnectAttempts,
                   keepAliveInterval, isAuthorized, currentAccount,
                   tickIssued, tickCancelled>>
    /\ UNCHANGED <<runVars, userVars, cmVars>>
    /\ UNCHANGED svcVars
    /\ UNCHANGED <<stratVars, calcVars, closesSinceOpen, cleanup>>

\* A tick push (quote q) for broker subscription x reaches ws.onmessage and
\* is routed by its subscription id to the tick handler, which stores the
\* tick in the history of its symbol and checks the price alerts.
TickPush(x, q, limit) ==
    /\ x \in srvSubs /\ x.kind = "ticks" /\ sock[x.s] = "open"
    /\ x.id \in DOMAIN subscriptionCallbacks
    /\ tickEpoch < limit
    /\ staleTick' = TickHandled(subscriptionCallbacks[x.id].h)
    /\ tickEpoch' = tickEpoch + 1
    /\ priceHistory' =
          [priceHistory EXCEPT ![subscriptionCallbacks[x.id].key] =
              addTickToHistory(@, [epoch |-> tickEpoch', quote |-> q])]
    /\ priceAlerts' = checkPriceAlerts(priceAlerts,
                                       subscriptionCallbacks[x.id].key, q,
                                       tickEpoch')
    /\ UNCHANGED <<apiVars, runVars, srvVars, userVars, cmVars,
                   tickSubscriptions, tickIssued, tickCancelled>>
    /\ UNCHANGED svcVars
    /\ UNCHANGED <<stratVars, calcVars, closesSinceOpen, cleanup>>

\* MarketDataService.unsubscribeFromTicks(symbol)
UnsubscribeFromTicks(y) ==
    LET subId == tickSubscriptions[y] IN
    /\ tickCancelled' = tickCancelled \cup {p[1] : p \in {q \in tickIssued : q[2] = y}}
    /\ IF subId # 0
       THEN /\ Len(calls) < MaxCalls
            /\ IsOpen => CanSend(1)
            /\ tickSubscriptions' = [tickSubscriptions EXCEPT ![y] = 0]
            /\ subscriptionCallbacks' =
                 IF subId \in DOMAIN subscriptionCallbacks
                 THEN Del(subscriptionCallbacks, subId) ELSE subscriptionCallbacks
            /\ subscriptions' = RemoveSub(subscriptions, subId)
            /\ calls' = NewCall("forget", subId)
            /\ LET st == unsubscribe(Cur, subId, Len(calls) + 1) IN
                /\ requestId' = st.requestId
                /\ callbacks' = st.callbacks
                /\ wire' = st.wire
       ELSE UNCHANGED <<tickSubscriptions, subscriptionCallbacks, subscriptions,
                        calls, requestId, callbacks, wire>>
    /\ UNCHANGED <<ws, connectionState, reconnectAttempts, keepAliveInterval,
                   isAuthorized, currentAccount, srvSubs, userConnects,
                   userDisconnected, tickIssued, staleTick>>
    /\ UNCHANGED <<runVars, cmVars>>
    /\ UNCHANGED svcVars
    /\ UNCHANGED extVars

(* --------------------------- ContractManager -------------------------- *)
Terminal == {"won", "lost", "sold"}

\* Date.now() advances.
ClockTick ==
    /\ now < MaxClock
    /\ now' = now + 1
    /\ UNCHANGED <<apiVars, runVars, srvVars, userVars, mdVars,
                   activeContracts, contractObjs, contractSubscriptions>>
    /\ UNCHANGED svcVars
    /\ UNCHANGED extVars

\* ContractManager.buyContract(proposalId, price) up to its await; the
\* request carries the symbol of the metadata, "" without metadata.
BuyContract ==
    /\ Len(calls) < MaxTrades
    /\ calls' = NewCall("buy", "")
    /\ LET st == send(Cur, "buy", "", Len(calls) + 1) IN
        /\ requestId' = st.requestId
        /\ callbacks' = st.callbacks
        /\ wire' = st.wire
    /\ UNCHANGED <<ws, subscriptionCallbacks, subscriptions, connectionState,
                   reconnectAttempts, keepAliveInterval, isAuthorized,
                   currentAccount, srvSubs, userConnects, userDisconnected>>
    /\ UNCHANGED <<runVars, mdVars, cmVars>>
    /\ UNCHANGED svcVars
    /\ UNCHANGED extVars

\* metadata?.symbol || '' of the buyContract call that bought contractId.
BoughtSymbol(contractId) ==
    IF contractId \in DOMAIN callbacks THEN callbacks[contractId].arg ELSE ""

\* The Contract buyContract builds from a buy response.
NewContract(contractId, key) ==
    [contractId |-> contractId, status |-> "active", profit |-> 0, key |-> key,
     symbol |-> BoughtSymbol(contractId)]

\* A buyContract that creates the Contract whatever the broker answers.
ContractsAfterBuyAlways(objs, contractId, ok) ==
    Put(objs, contractId, NewContract(contractId, now))

\* The Contract objects after buyContract resumed: a new one after a
\* successful response, none after an error (the await throws).
ContractsAfterBuy(objs, contractId, ok) ==
    IF ok THEN Put(objs, contractId, NewContract(contractId, now)) ELSE objs

\* The buy response arrives and buyContract resumes. On an error it throws;
\* otherwise it stores a new active Contract under `contract_${Date.now()}`
\* and subscribes to its updates. The broker contract id is the id of the
\* buy request here.
RespBuy(m, ok) ==
    /\ Deliverable(m) /\ m.op = "buy"
    /\ calls' = Settle(calls, CallOf(m.req), ok)
    /\ LET st0 == [requestId |-> requestId, callbacks |-> Answered(m.req),
                   wire |-> wire \ {m}]
           st == IF ok THEN send(st0, "contract", <<m.req, now>>, 0) ELSE st0
       IN /\ requestId' = st.requestId
          /\ callbacks' = st.callbacks
          /\ wire' = st.wire
    /\ contractObjs' = ContractsAfterBuy(contractObjs, m.req, ok)
    /\ activeContracts' = IF ok THEN Put(activeContracts, now, m.req)
                          ELSE activeContracts
    /\ UNCHANGED <<ws, subscriptionCallbacks, subscriptions, connectionState,
                   reconnectAttempts, keepAliveInterval, isAuthorized,
                   currentAccount, srvSubs, userConnects, userDisconnected,
                   contractSubscriptions, now>>
    /\ UNCHANGED <<runVars, mdVars>>
    /\ UNCHANGED svcVars
    /\ UNCHANGED extVars

\* The status the update handler leaves in a Contract.
UpdatedStatus(status, isExpired, isSold, profit) ==
    IF isExpired THEN (IF profit > 0 THEN "won" ELSE "lost")
    ELSE IF isSold THEN "sold"
    ELSE status

\* The handler subscribeToContractUpdates registers, for contract key k:
\* it updates the Contract object stored under k, if there is one.
ContractHandled(k, isExpired, isSold, profit) ==
    IF k \in DOMAIN activeContracts
    THEN [contractObjs EXCEPT ![activeContracts[k]] =
            [@ EXCEPT !.profit = profit,
                      !.status = UpdatedStatus(@, isExpired, isSold, profit)]]
    ELSE contractObjs

\* The first response to the open-contract subscribe request: the handler is
\* registered, onReady stores the subscription id under the contract id, and
\* the message is routed to the handler.
RespSubscribeContract(m, isExpired, isSold, profit) ==
    /\ Deliverable(m) /\ m.op = "contract"
    /\ wire' = wire \ {m}
    /\ callbacks' = Answered(m.req)
    /\ subscriptionCallbacks' =
          Put(subscriptionCallbacks, m.req,
              [kind |-> "contract", key |-> m.arg[2], h |-> m.req])
    /\ subscriptions' = AddSub(subscriptions, m.req, "contract")
    /\ contractSubscriptions' = Put(contractSubscriptions, m.arg[1], m.req)
    /\ srvSubs' = srvSubs \cup
          {[s |-> m.s, id |-> m.req, kind |-> "contract", key |-> m.arg[2]]}
    /\ contractObjs' = ContractHandled(m.arg[2], isExpired, isSold, profit)
    /\ UNCHANGED <<ws, requestId, connectionState, reconnectAttempts,
                   keepAliveInterval, isAuthorized, currentAccount,
                   activeContracts, now>>
    /\ UNCHANGED <<runVars, userVars, mdVars>>
    /\ UNCHANGED svcVars
    /\ UNCHANGED extVars

\* The error response to the open-contract subscribe request: onUpdate gets a
\* message without proposal_open_contract, and the handler throws on it
\* before callbacks.delete is reached.
RespSubscribeContractError(m) ==
    /\ Deliverable(m) /\ m.op = "contract"
    /\ wire' = wire \ {m}
    /\ callbacks' = IF m.arg[2] \in DOMAIN activeContracts
                    THEN callbacks ELSE Answered(m.req)
    /\ UNCHANGED <<ws, requestId, subscriptionCallbacks, subscriptions,
                   connectionState, reconnectAttempts, keepAliveInterval,
                   isAuthorized, currentAccount, srvSubs>>
    /\ UNCHANGED <<runVars, userVars, mdVars, cmVars>>
    /\ UNCHANGED svcVars
    /\ UNCHANGED extVars

\* An open-contract push for broker subscription x.
ContractPush(x, isExpired, isSold, profit) ==
    /\ x \in srvSubs /\ x.kind = "contract" /\ sock[x.s] = "open"
    /\ x.id \in DOMAIN subscriptionCallbacks
    /\ contractObjs' = ContractHandled(subscriptionCallbacks[x.id].key,
                                       isExpired, isSold, profit)
    /\ UNCHANGED <<apiVars, runVars, srvVars, userVars, mdVars,
                   activeContracts, contractSubscriptions, now>>
    /\ UNCHANGED svcVars
    /\ UNCHANGED extVars

\* A sellContract that marks the Contract sold whatever the broker answers.
SellOutcomeOptimistic(ok, status) == "sold"

\* What sellContract does with the Contract's status once the sell request
\* is answered.
SellOutcome(ok, status) == IF ok THEN "sold" ELSE status

\* ContractManager.sellContract(contractKey) up to its await: it throws for
\* an unknown key, otherwise sends the sell request for the Contract found.
SellContract(k) ==
    /\ Len(calls) < MaxTrades
    /\ IF k \in DOMAIN activeContracts
       THEN /\ calls' = NewCall("sell", activeContracts[k])
            /\ LET st == send(Cur, "sell", <<activeContracts[k], k>>, Len(calls) + 1) IN
                /\ requestId' = st.requestId
                /\ callbacks' = st.callbacks
                /\ wire' = st.wire
       ELSE /\ calls' = Append(calls, [op |-> "sell", arg |-> 0,
                                       st |-> "rejected", sent |-> FALSE])
            /\ UNCHANGED <<requestId, callbacks, wire>>
    /\ UNCHANGED <<ws, subscriptionCallbacks, subscriptions, connectionState,
                   reconnectAttempts, keepAliveInterval, isAuthorized,
                   currentAccount, srvSubs, userConnects, userDisconnected>>
    /\ UNCHANGED <<runVars, mdVars, cmVars>>
    /\ UNCHANGED svcVars
    /\ UNCHANGED extVars

\* The sell response arrives and sellContract resumes with the Contract
\* object it looked up before the await.
RespSell(m, ok) ==
    /\ Deliverable(m) /\ m.op = "sell"
    /\ wire' = wire \ {m}
    /\ callbacks' = Answered(m.req)
    /\ calls' = Settle(calls, CallOf(m.req), ok)
    /\ contractObjs' = [contractObjs EXCEPT ![m.arg[1]].status = SellOutcome(ok, @)]
    /\ activeContracts' = IF ok THEN Put(activeContracts, m.arg[2], m.arg[1])
                          ELSE activeContracts
    /\ UNCHANGED <<ws, requestId, subscriptionCallbacks, subscriptions,
                   connectionState, reconnectAttempts, keepAliveInterval,
                   isAuthorized, currentAccount, srvSubs, userConnects,
                   userDisconnected, contractSubscriptions, now>>
    /\ UNCHANGED <<runVars, mdVars>>
    /\ UNCHANGED svcVars
    /\ UNCHANGED extVars

(* ------------------------------ proposals ----------------------------- *)
\* A complete ContractParams.
CompleteParams ==
    [symbol |-> "R_100", contract_type |-> "CALL", amount |-> 1,
     duration |-> 1, duration_unit |-> "m", basis |-> "stake"]

\* The ContractParams callers pass: the complete one, and each one that lacks
\* a single field ("" = missing) or has a non-positive amount or duration.
ProposalParams ==
    {CompleteParams,
     [CompleteParams EXCEPT !.symbol = ""],
     [CompleteParams EXCEPT !.contract_type = ""],
     [CompleteParams EXCEPT !.amount = 0],
     [CompleteParams EXCEPT !.duration = 0],
     [CompleteParams EXCEPT !.duration_unit = ""],
     [CompleteParams EXCEPT !.basis = ""]}

\* TradingService.validateTradeParams(params).isValid
validateTradeParams(p) ==
    /\ p.symbol # ""
    /\ p.contract_type # ""
    /\ p.amount > 0
    /\ p.duration > 0
    /\ p.duration_unit # ""
    /\ p.basis # ""

\* ContractManager.createProposal(params) up to its await: the parameters
\* go to getContractProposal as they are.
CreateProposal(p) ==
    /\ Len(calls) < MaxTrades
    /\ calls' = NewCall("proposal", p)
    /\ LET st == send(Cur, "proposal", p, Len(calls) + 1) IN
        /\ requestId' = st.requestId
        /\ callbacks' = st.callbacks
        /\ wire' = st.wire
    /\ UNCHANGED <<connVars, subscriptionCallbacks, subscriptions, isAuthorized,
                   currentAccount, srvSubs, userConnects, userDisconnected>>
    /\ UNCHANGED <<runVars, mdVars, cmVars, svcVars>>
    /\ UNCHANGED extVars

\* The proposal response arrives and createProposal resumes: the quote is
\* stored under the id the broker gave it (the id of the request here); on
\* an error it throws.
RespProposal(m, ok) ==
    /\ Deliverable(m) /\ m.op = "proposal"
    /\ wire' = wire \ {m}
    /\ callbacks' = Answered(m.req)
    /\ calls' = Settle(calls, CallOf(m.req), ok)
    /\ activeProposals' = IF ok THEN activeProposals \cup {m.req}
                          ELSE activeProposals
    /\ UNCHANGED <<connVars, requestId, subscriptionCallbacks, subscriptions,
                   isAuthorized, currentAccount, srvSubs, userConnects,
                   userDisconnected, acctVars, srvAccount>>
    /\ UNCHANGED <<runVars, mdVars, cmVars>>
    /\ UNCHANGED extVars

(* ---------------------------- AccountService -------------------------- *)
Tokens == {"t1", "t2"}
AccountIds == {"CR1", "CR2", "VR1"}

\* The authorize response of the broker for a token: the login id the token
\* belongs to and the account list of its user.
LoginOf(t) == IF t = "t1" THEN "CR1" ELSE "VR1"
AccountList(t) == IF t = "t1" THEN {"CR1", "CR2"} ELSE {"VR1"}

CanSendAcct(n) == requestId + n - 1 <= MaxAcctReq

\* authenticate's forEach over response.authorize.account_list: every listed
\* account is stored, active iff it is the response's login id; the balance
\* of the response goes to that account only. A balance is recorded as the
\* login id the broker computed it for, "" = undefined.
StoreAccounts(accts, t) ==
    [a \in DOMAIN accts \cup AccountList(t) |->
        IF a \in AccountList(t)
        THEN [isActive |-> a = LoginOf(t),
              balance |-> IF a = LoginOf(t) THEN LoginOf(t) ELSE ""]
        ELSE accts[a]]

\* switchAccount's forEach: account.isActive = (id === loginid)
MarkActive(accts, l) ==
    [a \in DOMAIN accts |-> [accts[a] EXCEPT !.isActive = (a = l)]]

\* The callback subscribeToBalance(loginid) builds, and getAccountBalance's
\* update: the balance received is stored under loginid if it is tracked.
BalanceHandled(accts, l, balance) ==
    IF l \in DOMAIN accts THEN [accts EXCEPT ![l].balance = balance] ELSE accts

\* A lookup that finds every login id.
KnownAccountAlways(accts, l) == TRUE

\* this.accounts.has(loginid)
KnownAccount(accts, l) == l \in DOMAIN accts

\* this.balanceSubscriptions.get(loginid), 0 = undefined
BalanceSubOf(l) ==
    IF l \in DOMAIN balanceSubscriptions THEN balanceSubscriptions[l] ELSE 0

\* AccountService.authenticate(token) up to its await.
Authenticate(t) ==
    /\ Len(calls) < MaxAcctCalls
    /\ IsOpen => CanSendAcct(1)
    /\ calls' = NewCall("authenticate", t)
    /\ LET st == send(Cur, "authorize", t, Len(calls) + 1) IN
        /\ requestId' = st.requestId
        /\ callbacks' = st.callbacks
        /\ wire' = st.wire
    /\ UNCHANGED <<connVars, subscriptionCallbacks, subscriptions, isAuthorized,
                   currentAccount, srvSubs, userConnects, userDisconnected>>
    /\ UNCHANGED <<runVars, mdVars, cmVars, svcVars>>
    /\ UNCHANGED extVars

\* The authorize response arrives: DerivAPI.authorize's callback runs and
\* authenticate resumes: it stores the accounts, sets the current account,
\* subscribes to the balance of the login id and returns.
RespAuthenticate(m, ok) ==
    /\ Deliverable(m) /\ m.op = "authorize" /\ m.arg \in Tokens
    /\ IsOpen => CanSendAcct(1)
    /\ LET st0 == [requestId |-> requestId, callbacks |-> Answered(m.req),
                   wire |-> wire \ {m}]
           st == IF ok THEN send(st0, "balance", LoginOf(m.arg), 0) ELSE st0
       IN /\ requestId' = st.requestId
          /\ callbacks' = st.callbacks
          /\ wire' = st.wire
    /\ calls' = Settle(calls, CallOf(m.req), ok)
    /\ isAuthorized' = IF ok THEN TRUE ELSE isAuthorized
    /\ currentAccount' = IF ok THEN LoginOf(m.arg) ELSE currentAccount
    /\ srvAccount' = IF ok THEN [srvAccount EXCEPT ![m.s] = LoginOf(m.arg)]
                     ELSE srvAccount
    /\ accounts' = IF ok THEN StoreAccounts(accounts, m.arg) ELSE accounts
    /\ activeAccount' = IF ok THEN LoginOf(m.arg) ELSE activeAccount
    /\ UNCHANGED <<connVars, subscriptionCallbacks, subscriptions, srvSubs,
                   userConnects, userDisconnected, balanceSubscriptions,
                   transactionHistory, profitHistory, activeProposals>>
    /\ UNCHANGED <<runVars, mdVars, cmVars>>
    /\ UNCHANGED extVars

\* The first response to a balance subscribe request. With a subscription id
\* the handler is registered, onReady stores the id under the login id, and
\* the message is routed to the handler; an error goes to the handler
\* directly, which throws on it (it has no balance) when the account is
\* tracked, before callbacks.delete is reached.
RespSubscribeBalance(m, ok) ==
    /\ Deliverable(m) /\ m.op = "balance"
    /\ ok => srvAccount[m.s] # ""
    /\ wire' = wire \ {m}
    /\ IF ok
       THEN /\ callbacks' = Answered(m.req)
            /\ subscriptionCallbacks' =
                  Put(subscriptionCallbacks, m.req,
                      [kind |-> "balance", key |-> m.arg, h |-> m.req])
            /\ subscriptions' = AddSub(subscriptions, m.req, "balance")
            /\ balanceSubscriptions' = Put(balanceSubscriptions, m.arg, m.req)
            /\ srvSubs' = srvSubs \cup
                  {[s |-> m.s, id |-> m.req, kind |-> "balance", key |-> m.arg]}
            /\ accounts' = BalanceHandled(accounts, m.arg, srvAccount[m.s])
       ELSE /\ callbacks' = IF KnownAccount(accounts, m.arg)
                            THEN callbacks ELSE Answered(m.req)
            /\ UNCHANGED <<subscriptionCallbacks, subscriptions,
                           balanceSubscriptions, srvSubs, accounts>>
    /\ UNCHANGED <<connVars, requestId, isAuthorized, currentAccount,
                   activeAccount, transactionHistory, profitHistory,
                   srvAccount, activeProposals>>
    /\ UNCHANGED <<runVars, userVars, mdVars, cmVars>>
    /\ UNCHANGED extVars

\* AccountService.switchAccount(loginid) up to its first await on the
\* network: an unknown login id throws at once; otherwise the balance
\* subscription recorded for the current account, if any, is unsubscribed
\* (registry entries deleted, forget sent); with none recorded the switch
\* request is sent straight away.
SwitchAccount(l) ==
    /\ Len(calls) < MaxAcctCalls
    /\ IsOpen => CanSendAcct(1)
    /\ IF ~KnownAccount(accounts, l)
       THEN /\ calls' = Append(calls, [op |-> "switchAccount", arg |-> l,
                                       st |-> "rejected", sent |-> FALSE])
            /\ UNCHANGED <<requestId, callbacks, wire, subscriptionCallbacks,
                           subscriptions>>
       ELSE LET subId == IF activeAccount # "" THEN BalanceSubOf(activeAccount)
                         ELSE 0
            IN /\ calls' = NewCall("switchAccount", l)
               /\ IF subId # 0
                  THEN /\ subscriptionCallbacks' =
                            IF subId \in DOMAIN subscriptionCallbacks
                            THEN Del(subscriptionCallbacks, subId)
                            ELSE subscriptionCallbacks
                       /\ subscriptions' = RemoveSub(subscriptions, subId)
                       /\ LET st == send(Cur, "forgetBalance",
                                         <<subId, activeAccount, l>>,
                                         Len(calls) + 1) IN
                           /\ requestId' = st.requestId
                           /\ callbacks' = st.callbacks
                           /\ wire' = st.wire
                  ELSE /\ UNCHANGED <<subscriptionCallbacks, subscriptions>>
                       /\ LET st == send(Cur, "switch", l, Len(calls) + 1) IN
                           /\ requestId' = st.requestId
                           /\ callbacks' = st.callbacks
                           /\ wire' = st.wire
    /\ UNCHANGED <<connVars, isAuthorized, currentAccount, srvSubs,
                   userConnects, userDisconnected>>
    /\ UNCHANGED <<runVars, mdVars, cmVars, svcVars>>
    /\ UNCHANGED extVars

\* The forget response of unsubscribeFromBalance arrives and switchAccount
\* resumes: on an error it throws; otherwise the recorded subscription id is
\* dropped and the switch request is sent.
RespForgetBalance(m, ok) ==
    /\ Deliverable(m) /\ m.op = "forgetBalance"
    /\ IsOpen => CanSendAcct(1)
    /\ srvSubs' = IF ok THEN {x \in srvSubs : ~(x.s = m.s /\ x.id = m.arg[1])}
                  ELSE srvSubs
    /\ LET st0 == [requestId |-> requestId, callbacks |-> Answered(m.req),
                   wire |-> wire \ {m}]
           st == IF ok THEN send(st0, "switch", m.arg[3], CallOf(m.req)) ELSE st0
       IN /\ requestId' = st.requestId
          /\ callbacks' = st.callbacks
          /\ wire' = st.wire
    /\ calls' = IF ok THEN calls ELSE Settle(calls, CallOf(m.req), FALSE)
    /\ balanceSubscriptions' =
          IF ok /\ m.arg[2] \in DOMAIN balanceSubscriptions
          THEN Del(balanceSubscriptions, m.arg[2]) ELSE balanceSubscriptions
    /\ UNCHANGED <<connVars, subscriptionCallbacks, subscriptions, isAuthorized,
                   currentAccount, userConnects, userDisconnected, accounts,
                   activeAccount, transactionHistory, profitHistory,
                   srvAccount, activeProposals>>
    /\ UNCHANGED <<runVars, mdVars, cmVars>>
    /\ UNCHANGED extVars

\* The switch response arrives: DerivAPI.switchAccount's callback runs and
\* switchAccount resumes: it marks the accounts, sets the current account,
\* subscribes to the balance of the new account and starts
\* refreshAccountData, whose first request is getAccountBalance.
RespSwitch(m, ok) ==
    /\ Deliverable(m) /\ m.op = "switch"
    /\ ok => srvAccount[m.s] # ""
    /\ IsOpen => CanSendAcct(2)
    /\ LET st0 == [requestId |-> requestId, callbacks |-> Answered(m.req),
                   wire |-> wire \ {m}]
           st == IF ok
                 THEN send(send(st0, "balance", m.arg, 0),
                           "getBalance", m.arg, CallOf(m.req))
                 ELSE st0
       IN /\ requestId' = st.requestId
          /\ callbacks' = st.callbacks
          /\ wire' = st.wire
    /\ calls' = IF ok THEN calls ELSE Settle(calls, CallOf(m.req), FALSE)
    /\ currentAccount' = IF ok THEN m.arg ELSE currentAccount
    /\ srvAccount' = IF ok THEN [srvAccount EXCEPT ![m.s] = m.arg] ELSE srvAccount
    /\ accounts' = IF ok THEN MarkActive(accounts, m.arg) ELSE accounts
    /\ activeAccount' = IF ok THEN m.arg ELSE activeAccount
    /\ UNCHANGED <<connVars, subscriptionCallbacks, subscriptions, isAuthorized,
                   srvSubs, userConnects, userDisconnected,
                   balanceSubscriptions, transactionHistory, profitHistory,
                   activeProposals>>
    /\ UNCHANGED <<runVars, mdVars, cmVars>>
    /\ UNCHANGED extVars

\* The balance response of refreshAccountData's getAccountBalance arrives:
\* the balance is stored under the target account and the statement is
\* requested; an error is caught by refreshAccountData, which ends the
\* switchAccount call normally.
RespGetBalance(m, ok) ==
    /\ Deliverable(m) /\ m.op = "getBalance"
    /\ ok => srvAccount[m.s] # ""
    /\ IsOpen => CanSendAcct(1)
    /\ LET st0 == [requestId |-> requestId, callbacks |-> Answered(m.req),
                   wire |-> wire \ {m}]
           st == IF ok THEN send(st0, "statement", m.arg, CallOf(m.req)) ELSE st0
       IN /\ requestId' = st.requestId
          /\ callbacks' = st.callbacks
          /\ wire' = st.wire
    /\ calls' = IF ok THEN calls ELSE Settle(calls, CallOf(m.req), TRUE)
    /\ accounts' = IF ok THEN BalanceHandled(accounts, m.arg, srvAccount[m.s])
                   ELSE accounts
    /\ UNCHANGED <<connVars, subscriptionCallbacks, subscriptions, isAuthorized,
                   currentAccount, srvSubs, userConnects, userDisconnected,
                   activeAccount, balanceSubscriptions, transactionHistory,
                   profitHistory, srvAccount, activeProposals>>
    /\ UNCHANGED <<runVars, mdVars, cmVars>>
    /\ UNCHANGED extVars

\* The statement response arrives: the transactions are stored and the
\* profit table is requested; an error ends the refresh.
RespStatement(m, ok) ==
    /\ Deliverable(m) /\ m.op = "statement"
    /\ IsOpen => CanSendAcct(1)
    /\ LET st0 == [requestId |-> requestId, callbacks |-> Answered(m.req),
                   wire |-> wire \ {m}]
           st == IF ok THEN send(st0, "profit_table", m.arg, CallOf(m.req))
                 ELSE st0
       IN /\ requestId' = st.requestId
          /\ callbacks' = st.callbacks
          /\ wire' = st.wire
    /\ calls' = IF ok THEN calls ELSE Settle(calls, CallOf(m.req), TRUE)
    /\ transactionHistory' = IF ok THEN transactionHistory \cup {m.arg}
                             ELSE transactionHistory
    /\ UNCHANGED <<connVars, subscriptionCallbacks, subscriptions, isAuthorized,
                   currentAccount, srvSubs, userConnects, userDisconnected,
                   accounts, activeAccount, balanceSubscriptions,
                   profitHistory, srvAccount, activeProposals>>
    /\ UNCHANGED <<runVars, mdVars, cmVars>>
    /\ UNCHANGED extVars

\* The profit table response arrives: the table is stored; refreshAccountData
\* and with it switchAccount return, after an error too.
RespProfitTable(m, ok) ==
    /\ Deliverable(m) /\ m.op = "profit_table"
    /\ wire' = wire \ {m}
    /\ callbacks' = Answered(m.req)
    /\ calls' = Settle(calls, CallOf(m.req), TRUE)
    /\ profitHistory' = IF ok THEN profitHistory \cup {m.arg} ELSE profitHistory
    /\ UNCHANGED <<connVars, requestId, subscriptionCallbacks, subscriptions,
                   isAuthorized, currentAccount, srvSubs, userConnects,
                   userDisconnected, accounts, activeAccount,
                   balanceSubscriptions, transactionHistory, srvAccount,
                   activeProposals>>
    /\ UNCHANGED <<runVars, mdVars, cmVars>>
    /\ UNCHANGED extVars

(* --------------------------- balance refresh ------------------------- *)
MaxBalanceCalls == 3  \* authenticate / switchAccount / balance refresh calls issued

\* AccountService.getAccountBalance(loginid) up to its await (loginid "" =
\* omitted: the current account): without a target it throws, else it sends
\* the balance request, which names no account.
GetAccountBalance(l) ==
    /\ Len(calls) < MaxBalanceCalls
    /\ IsOpen => CanSendAcct(1)
    /\ LET targetAccount == IF l # "" THEN l ELSE activeAccount IN
       IF targetAccount = ""
       THEN /\ calls' = Append(calls, [op |-> "getAccountBalance", arg |-> l,
                                       st |-> "rejected", sent |-> FALSE])
            /\ UNCHANGED <<requestId, callbacks, wire>>
       ELSE /\ calls' = NewCall("getAccountBalance", targetAccount)
            /\ LET st == send(Cur, "accountBalance", targetAccount,
                              Len(calls) + 1) IN
                /\ requestId' = st.requestId
                /\ callbacks' = st.callbacks
                /\ wire' = st.wire
    /\ UNCHANGED <<connVars, subscriptionCallbacks, subscriptions, isAuthorized,
                   currentAccount, srvSubs, userConnects, userDisconnected>>
    /\ UNCHANGED <<runVars, mdVars, cmVars, svcVars>>
    /\ UNCHANGED extVars

\* The balance response of a getAccountBalance call arrives: the broker
\* reports the balance of the account its session is authorized for, and
\* getAccountBalance stores it under the target account.
RespAccountBalance(m, ok) ==
    /\ Deliverable(m) /\ m.op = "accountBalance"
    /\ ok => srvAccount[m.s] # ""
    /\ wire' = wire \ {m}
    /\ callbacks' = Answered(m.req)
    /\ calls' = Settle(calls, CallOf(m.req), ok)
    /\ accounts' = IF ok THEN BalanceHandled(accounts, m.arg, srvAccount[m.s])
                   ELSE accounts
    /\ UNCHANGED <<connVars, requestId, subscriptionCallbacks, subscriptions,
                   isAuthorized, currentAccount, srvSubs, userConnects,
                   userDisconnected, activeAccount, balanceSubscriptions,
                   transactionHistory, profitHistory, srvAccount,
                   activeProposals>>
    /\ UNCHANGED <<runVars, mdVars, cmVars>>
    /\ UNCHANGED extVars

RECURSIVE refreshEach(_, _, _)
\* One refreshAccountData(loginid) per tracked account, each up to its first
\* await: the balance request of its getAccountBalance(loginid), under the
\* promise numbered from `call` on.
refreshEach(st, ls, call) ==
    IF ls = {} THEN st
    ELSE LET l == CHOOSE x \in ls : TRUE
         IN refreshEach(send(st, "getBalance", l, call), ls \ {l}, call + 1)

RECURSIVE refreshCalls(_, _)
\* The promises of those refreshAccountData calls.
refreshCalls(cs, ls) ==
    IF ls = {} THEN cs
    ELSE LET l == CHOOSE x \in ls : TRUE
         IN refreshCalls(Append(cs, [op |-> "refreshAccountData", arg |-> l,
                                     st |-> "pending", sent |-> IsOpen]),
                         ls \ {l})

\* AccountService.refreshAllAccounts() up to its await.
RefreshAllAccounts ==
    /\ DOMAIN accounts # {}
    /\ Len(calls) + Cardinality(DOMAIN accounts) <= MaxBalanceCalls
    /\ IsOpen => CanSendAcct(Cardinality(DOMAIN accounts))
    /\ calls' = refreshCalls(calls, DOMAIN accounts)
    /\ LET st == refreshEach(Cur, DOMAIN accounts, Len(calls) + 1) IN
        /\ requestId' = st.requestId
        /\ callbacks' = st.callbacks
        /\ wire' = st.wire
    /\ UNCHANGED <<connVars, subscriptionCallbacks, subscriptions, isAuthorized,
                   currentAccount, srvSubs, userConnects, userDisconnected>>
    /\ UNCHANGED <<runVars, mdVars, cmVars, svcVars>>
    /\ UNCHANGED extVars

\* A balance push for broker subscription x (the stream names no account:
\* the broker reports the account its session is authorized for) is routed
\* to the callback subscribeToBalance(loginid) built, which stores the
\* balance under its loginid.
BalancePush(x) ==
    /\ x \in srvSubs /\ x.kind = "balance" /\ sock[x.s] = "open"
    /\ x.id \in DOMAIN subscriptionCallbacks
    /\ srvAccount[x.s] # ""
    /\ accounts' = BalanceHandled(accounts, subscriptionCallbacks[x.id].key,
                                  srvAccount[x.s])
    /\ UNCHANGED <<apiVars, runVars, srvVars, userVars, mdVars, cmVars>>
    /\ UNCHANGED <<activeAccount, balanceSubscriptions, transactionHistory,
                   profitHistory, srvAccount, activeProposals>>
    /\ UNCHANGED extVars

(* ------------------------- market data service ----------------------- *)
MaxHistCalls == 2     \* getHistoricalTicks calls issued
BaseQuote == 100
Quotes == {99, 100, 101}

\* The count argument of getHistoricalTicks: the default and one more.
HistoryCounts == {HistoryLimit, HistoryLimit + 1}

\* MarketDataService.getHistoricalTicks(symbol, count) up to its await.
GetHistoricalTicks(y, count) ==
    /\ Len(calls) < MaxHistCalls
    /\ IsOpen => CanSend(1)
    /\ calls' = NewCall("history", y)
    /\ LET st == send(Cur, "history", <<y, count>>, Len(calls) + 1) IN
        /\ requestId' = st.requestId
        /\ callbacks' = st.callbacks
        /\ wire' = st.wire
    /\ UNCHANGED <<connVars, subscriptionCallbacks, subscriptions, isAuthorized,
                   currentAccount, srvSubs, userConnects, userDisconnected>>
    /\ UNCHANGED <<runVars, mdVars, cmVars, svcVars, extVars>>

\* response.history of a ticks_history request for count ticks ending at
\* the latest: the last count ticks of the feed, oldest first.
LoadedTicks(count) ==
    [i \in 1..count |-> [epoch |-> tickEpoch - count + i, quote |-> BaseQuote]]

\* The history response arrives and getHistoricalTicks resumes: the ticks
\* of the response replace the list stored for the symbol; an error throws.
RespHistoricalTicks(m, ok) ==
    /\ Deliverable(m) /\ m.op = "history"
    /\ wire' = wire \ {m}
    /\ callbacks' = Answered(m.req)
    /\ calls' = Settle(calls, CallOf(m.req), ok)
    /\ priceHistory' = IF ok
                       THEN [priceHistory EXCEPT ![m.arg[1]] = LoadedTicks(m.arg[2])]
                       ELSE priceHistory
    /\ UNCHANGED <<connVars, requestId, subscriptionCallbacks, subscriptions,
                   isAuthorized, currentAccount, srvSubs, userConnects,
                   userDisconnected>>
    /\ UNCHANGED <<runVars, mdVars, cmVars, svcVars>>
    /\ UNCHANGED <<stratVars, priceAlerts, tickEpoch, calcVars, closesSinceOpen, cleanup>>

\* MarketDataService.createPriceAlert(symbol, condition, targetPrice, cb)
AlertConditions == {"above", "below", "crosses_above", "crosses_below"}
CreatePriceAlert(y, condition, targetPrice) ==
    /\ Len(priceAlerts) < MaxAlerts
    /\ priceAlerts' = Append(priceAlerts,
          [symbol |-> y, condition |-> condition, targetPrice |-> targetPrice,
           currentPrice |-> 0, isActive |-> TRUE, triggeredAt |-> 0,
           fired |-> 0])
    /\ UNCHANGED <<apiVars, runVars, srvVars, userVars, mdVars, cmVars, svcVars>>
    /\ UNCHANGED <<stratVars, priceHistory, tickEpoch, calcVars, closesSinceOpen, cleanup>>

(* ----------------------------- strategies ----------------------------- *)
MaxStratCalls == 2    \* executeStrategy calls issued
StrategyNames == {"s1"}
ExecuteNames == {"s1", "s2"}

\* The TradingStrategy objects callers store: enabled or not, with none or
\* one of the four thresholds set (0 = not set).
NoLimits == [stopLoss |-> 0, takeProfit |-> 0, maxLoss |-> 0, maxProfit |-> 0]
LimitProfiles ==
    {NoLimits, [NoLimits EXCEPT !.stopLoss = 1], [NoLimits EXCEPT !.takeProfit = 1],
     [NoLimits EXCEPT !.maxLoss = 1], [NoLimits EXCEPT !.maxProfit = 1]}
StrategyConfigs ==
    {[name |-> n, symbol |-> y, enabled |-> e, limits |-> l] :
        n \in StrategyNames, y \in Symbols, e \in BOOLEAN, l \in LimitProfiles}

\* strategies.get(name): the positions of the entry stored under name.
StrategyAt(name) == {i \in 1..Len(strategies) : strategies[i].name = name}

\* strategy.symbol of the entry stored under name.
StrategySymbol(name) ==
    IF StrategyAt(name) = {} THEN ""
    ELSE strategies[CHOOSE i \in StrategyAt(name) : TRUE].symbol

\* An executeStrategy that runs whatever is or is not stored under the name.
StrategyRunnableAny(name) == TRUE

\* The strategy check of executeStrategy, !(!strategy || !strategy.enabled).
StrategyRunnable(name) ==
    \E i \in StrategyAt(name) : strategies[i].enabled

\* ContractManager.createStrategy(strategy): strategies.set(name, strategy)
\* on the insertion-ordered Map.
CreateStrategy(cfg) ==
    /\ strategies' =
          IF StrategyAt(cfg.name) = {}
          THEN Append(strategies, cfg)
          ELSE [i \in 1..Len(strategies) |->
                  IF strategies[i].name = cfg.name THEN cfg ELSE strategies[i]]
    /\ strategies' # strategies
    /\ UNCHANGED <<apiVars, runVars, srvVars, userVars, mdVars, cmVars, svcVars>>
    /\ UNCHANGED <<manage, tickVars, calcVars, closesSinceOpen, cleanup>>

\* ContractManager.executeStrategy(name) up to its first await: it throws
\* for a missing or disabled strategy, else createProposal sends the quote
\* request with the parameters of the strategy captured now.
ExecuteStrategy(name) ==
    /\ Len(calls) < MaxStratCalls
    /\ IF StrategyRunnable(name)
       THEN /\ calls' = NewCall("executeStrategy", name)
            /\ LET st == send(Cur, "strategyProposal", StrategySymbol(name),
                               Len(calls) + 1)
               IN /\ requestId' = st.requestId
                  /\ callbacks' = st.callbacks
                  /\ wire' = st.wire
       ELSE /\ calls' = Append(calls, [op |-> "executeStrategy", arg |-> name,
                                       st |-> "rejected", sent |-> FALSE])
            /\ UNCHANGED <<requestId, callbacks, wire>>
    /\ UNCHANGED <<connVars, subscriptionCallbacks, subscriptions, isAuthorized,
                   currentAccount, srvSubs, userConnects, userDisconnected>>
    /\ UNCHANGED <<runVars, mdVars, cmVars, svcVars, extVars>>

\* The quote response of executeStrategy arrives: createProposal stores the
\* quote and executeStrategy goes on to buyContract with the metadata of the
\* strategy, which sends the buy request; after an error createProposal
\* throws and executeStrategy with it.
RespStrategyProposal(m, ok) ==
    /\ Deliverable(m) /\ m.op = "strategyProposal"
    /\ LET st0 == [requestId |-> requestId, callbacks |-> Answered(m.req),
                   wire |-> wire \ {m}]
           st == IF ok THEN send(st0, "buy", m.arg, CallOf(m.req)) ELSE st0
       IN /\ requestId' = st.requestId
          /\ callbacks' = st.callbacks
          /\ wire' = st.wire
    /\ activeProposals' = IF ok THEN activeProposals \cup {m.req}
                          ELSE activeProposals
    /\ calls' = IF ok THEN calls ELSE Settle(calls, CallOf(m.req), FALSE)
    /\ UNCHANGED <<connVars, subscriptionCallbacks, subscriptions, isAuthorized,
                   currentAccount, srvSubs, userConnects, userDisconnected>>
    /\ UNCHANGED <<runVars, mdVars, cmVars, acctVars, srvAccount, extVars>>

(* ----------------------- automatic risk management ------------------- *)
MaxManageRuns == 1    \* autoManageContracts calls issued

\* ContractManager.checkRiskLimits(contract, strategy) for a strategy with
\* the limits l and a contract with the given profit.
checkRiskLimits(profit, l) ==
    /\ ~(l.stopLoss # 0 /\ profit <= -l.stopLoss)
    /\ ~(l.takeProfit # 0 /\ profit >= l.takeProfit)
    /\ ~(l.maxLoss # 0 /\ profit <= -l.maxLoss)
    /\ ~(l.maxProfit # 0 /\ profit >= l.maxProfit)

\* Array.from(strategies.values()).find(s => s.symbol === contract.symbol
\* && s.contractType === contract.contractType): the position of the first
\* match, 0 without one (every contract and strategy here is a CALL).
MatchingStrategy(o) ==
    LET hits == {i \in 1..Len(strategies) : strategies[i].symbol = o.symbol} IN
    IF hits = {} THEN 0 ELSE CHOOSE i \in hits : \A j \in hits : i <= j

\* The test of the loop body of autoManageContracts for the entry under key
\* k: the contract is active, a strategy matches and a limit is breached.
NeedsSell(objs, k) ==
    LET o == objs[activeContracts[k]] IN
    /\ o.status = "active"
    /\ MatchingStrategy(o) # 0
    /\ ~checkRiskLimits(o.profit, strategies[MatchingStrategy(o)].limits)

\* The entries the loop has still to visit after the entry under key pos, in
\* the order of the Map (ascending keys), and the first of them it sells.
EntriesAfter(pos) == {k \in DOMAIN activeContracts : k > pos}
FirstToSell(objs, pos) ==
    LET due == {k \in EntriesAfter(pos) : NeedsSell(objs, k)} IN
    IF due = {} THEN 0 ELSE CHOOSE k \in due : \A j \in due : k <= j
LastEntry == IF DOMAIN activeContracts = {} THEN 0
             ELSE CHOOSE k \in DOMAIN activeContracts :
                      \A j \in DOMAIN activeContracts : j <= k

\* The loop of autoManageContracts runs from the entry after pos up to its
\* next await: it skips every entry that needs no sell and calls sellContract
\* for the first that does, which sends the sell request (promise number
\* `call`); without such an entry it returns.
ManageStep(objs, pos, st, cs) ==
    LET k == FirstToSell(objs, pos) IN
    IF k = 0
    THEN [manage |-> [manage EXCEPT !.st = "done", !.call = 0, !.pos = LastEntry],
          st |-> st, calls |-> cs]
    ELSE [manage |-> [manage EXCEPT !.st = "waiting", !.call = Len(cs) + 1,
                                    !.pos = k],
          st |-> send(st, "autoSell", <<activeContracts[k], k>>, Len(cs) + 1),
          calls |-> Append(cs, [op |-> "autoSell", arg |-> activeContracts[k],
                                st |-> "pending", sent |-> IsOpen])]

\* ContractManager.autoManageContracts() up to its first await.
AutoManageContracts ==
    /\ manage.st \in {"idle", "done"}
    /\ manage.runs < MaxManageRuns
    /\ LET r == ManageStep(contractObjs, 0, Cur, calls) IN
        /\ manage' = [r.manage EXCEPT !.runs = manage.runs + 1]
        /\ requestId' = r.st.requestId
        /\ callbacks' = r.st.callbacks
        /\ wire' = r.st.wire
        /\ calls' = r.calls
    /\ UNCHANGED <<connVars, subscriptionCallbacks, subscriptions, isAuthorized,
                   currentAccount, srvSubs, userConnects, userDisconnected>>
    /\ UNCHANGED <<runVars, mdVars, cmVars, svcVars>>
    /\ UNCHANGED <<strategies, tickVars, calcVars, closesSinceOpen, cleanup>>

\* The sell response of the sellContract autoManageContracts awaits arrives:
\* sellContract marks the Contract sold or throws, autoManageContracts logs
\* either and its loop goes on with the next entry.
RespAutoSell(m, ok) ==
    /\ Deliverable(m) /\ m.op = "autoSell"
    /\ contractObjs' = [contractObjs EXCEPT ![m.arg[1]].status = SellOutcome(ok, @)]
    /\ activeContracts' = IF ok THEN Put(activeContracts, m.arg[2], m.arg[1])
                          ELSE activeContracts
    /\ LET r == ManageStep(contractObjs', manage.pos,
                           [requestId |-> requestId,
                            callbacks |-> Answered(m.req),
                            wire |-> wire \ {m}],
                           Settle(calls, CallOf(m.req), ok)) IN
        /\ manage' = r.manage
        /\ requestId' = r.st.requestId
        /\ callbacks' = r.st.callbacks
        /\ wire' = r.st.wire
        /\ calls' = r.calls
    /\ UNCHANGED <<connVars, subscriptionCallbacks, subscriptions, isAuthorized,
                   currentAccount, srvSubs, userConnects, userDisconnected,
                   contractSubscriptions, now>>
    /\ UNCHANGED <<runVars, mdVars, svcVars>>
    /\ UNCHANGED <<strategies, tickVars, calcVars, closesSinceOpen, cleanup>>

(* ------------------------ risk and indicator maths ------------------- *)
MaxSeries == 16       \* prices in a series handed to calculateRSI
MaxPositions == 5     \* open positions handed to validateTradeRisk

\* A JavaScript number that is a fraction, as <<numerator, denominator>> with
\* a positive denominator.
RMin(a, b) == IF a[1] * b[2] <= b[1] * a[2] THEN a ELSE b
RFloor(a) == a[1] \div a[2]
Max(a, b) == IF a >= b THEN a ELSE b
Abs(a) == IF a >= 0 THEN a ELSE -a

\* initialState.riskParameters of the trading context, and the same with
\* another risk per trade or another position cap.
DefaultRisk ==
    [maxRiskPerTrade |-> 2, maxDailyLoss |-> 100, maxDrawdown |-> 10,
     maxOpenPositions |-> 5, maxRiskPerSymbol |-> 5]
RiskProfiles ==
    {DefaultRisk, [DefaultRisk EXCEPT !.maxRiskPerTrade = 20],
     [DefaultRisk EXCEPT !.maxOpenPositions = 3]}

\* RiskManager.calculatePositionSize(accountBalance, entryPrice,
\* stopLossPrice, symbol): stop = 0 and symbol = "" are the missing arguments.
calculatePositionSize(accountBalance, entryPrice, stopLossPrice, symbol, rp) ==
    LET maxRiskAmount == <<accountBalance * rp.maxRiskPerTrade, 100>>
        usesStop == stopLossPrice # 0 /\ entryPrice # stopLossPrice
        riskPerUnit == Abs(entryPrice - stopLossPrice)
        maxUnits == <<maxRiskAmount[1], maxRiskAmount[2] * riskPerUnit>>
        byRisk == IF usesStop
                  THEN RMin(<<maxUnits[1] * entryPrice, maxUnits[2]>>, maxRiskAmount)
                  ELSE maxRiskAmount
        recommendedAmount ==
            IF symbol # ""
            THEN RMin(byRisk, <<accountBalance * rp.maxRiskPerSymbol, 100>>)
            ELSE byRisk
        maxAmount == RMin(<<2 * recommendedAmount[1], recommendedAmount[2]>>,
                          <<accountBalance, 10>>)
    IN [kind |-> "position",
        recommendedAmount |-> Max(1, RFloor(recommendedAmount)),
        maxAmount |-> Max(1, RFloor(maxAmount)),
        riskAmount |-> IF usesStop
                       THEN <<maxUnits[1] * riskPerUnit, maxUnits[2]>>
                       ELSE maxRiskAmount]

\* RiskManager.getDailyPnL(): dailyStats.get(today)?.pnl || 0, on the
\* dailyStats map that nothing ever writes.
getDailyPnL == 0

RECURSIVE getSymbolExposure(_, _)
\* RiskManager.getSymbolExposure(symbol, contracts)
getSymbolExposure(symbol, contracts) ==
    IF contracts = <<>> THEN 0
    ELSE (IF Head(contracts).symbol = symbol THEN Head(contracts).amount ELSE 0)
         + getSymbolExposure(symbol, Tail(contracts))

\* RiskManager.getCurrentDrawdown() for the total profit of the contracts
\* ContractManager tracks.
getCurrentDrawdown(totalPnL) == Abs(IF totalPnL < 0 THEN totalPnL ELSE 0)

\* A position check that lets one position too many through.
PositionsFullAbove(count, maxOpenPositions) == count > maxOpenPositions

\* currentPositions.length >= this.riskParameters.maxOpenPositions
PositionsFull(count, maxOpenPositions) == count >= maxOpenPositions

\* RiskManager.validateTradeRisk(contractParams, accountBalance,
\* currentPositions)
validateTradeRisk(amount, symbol, accountBalance, currentPositions, totalPnL, rp) ==
    LET positionSize == calculatePositionSize(accountBalance, amount, 0, "", rp)
        symbolExposure == getSymbolExposure(symbol, currentPositions)
    IN CASE PositionsFull(Len(currentPositions), rp.maxOpenPositions) ->
               [kind |-> "risk", isValid |-> FALSE, reason |-> "open positions"]
         [] OTHER ->
            IF getDailyPnL <= -rp.maxDailyLoss
            THEN [kind |-> "risk", isValid |-> FALSE, reason |-> "daily loss"]
            ELSE IF amount > positionSize.maxAmount
            THEN [kind |-> "risk", isValid |-> FALSE, reason |-> "position size"]
            ELSE IF (symbolExposure + amount) * 100
                      > accountBalance * rp.maxRiskPerSymbol
            THEN [kind |-> "risk", isValid |-> FALSE, reason |-> "symbol risk"]
            ELSE IF getCurrentDrawdown(totalPnL) >= rp.maxDrawdown
            THEN [kind |-> "risk", isValid |-> FALSE, reason |-> "drawdown"]
            ELSE [kind |-> "risk", isValid |-> TRUE, reason |-> ""]

RECURSIVE SumFrom(_, _)
\* reduce((a, b) => a + b, 0) over the entries of f from position i on
SumFrom(f, i) == IF i > Len(f) THEN 0 ELSE f[i] + SumFrom(f, i + 1)

\* A period test that asks for one price less.
TooFewPricesByOne(count, period) == count < period

\* prices.length < period + 1
TooFewPrices(count, period) == count < period + 1

\* MarketDataService.calculateRSI(prices, period), as the fraction it
\* stands for: 100 - 100 / (1 + avgGain / avgLoss) = 100 * gain / (gain + loss)
\* over the last `period` changes.
calculateRSI(prices, period) ==
    LET changes == [i \in 1..Len(prices) - 1 |-> prices[i + 1] - prices[i]]
        gains == [i \in 1..Len(changes) |-> IF changes[i] > 0 THEN changes[i] ELSE 0]
        losses == [i \in 1..Len(changes) |-> IF changes[i] < 0 THEN -changes[i] ELSE 0]
        from == Max(1, Len(changes) - period + 1)
        gain == SumFrom(gains, from)
        loss == SumFrom(losses, from)
    IN IF TooFewPrices(Len(prices), period) THEN <<50, 1>>
       ELSE IF loss = 0 THEN <<100, 1>>
       ELSE <<100 * gain, gain + loss>>

\* The arguments callers pass.
Balances == {5, 1000}
StopLossPrices == {0, 95, 100, 105}
PositionInputs ==
    [kind : {"position"}, accountBalance : Balances, entryPrice : {100},
     stopLossPrice : StopLossPrices, symbol : Symbols \cup {""},
     rp : RiskProfiles]

OpenPositions ==
    UNION {[1..n -> [symbol : {"R_100", "R_50"}, amount : {10}]] :
              n \in 0..MaxPositions}
\* closedToday is the profit the contracts closed today have realized; the
\* RiskManager has no input for it.
RiskInputs ==
    [kind : {"risk"}, amount : {1, 20, 41}, symbol : Symbols,
     accountBalance : {1000}, currentPositions : OpenPositions,
     totalPnL : {0, -10}, closedToday : {0, -100}, rp : RiskProfiles]

\* The series that start at 20 and move by one up or down at every step.
StartPrice == 20
RECURSIVE Series(_)
Series(changes) ==
    IF changes = <<>> THEN <<StartPrice>>
    ELSE LET p == Series(SubSeq(changes, 1, Len(changes) - 1))
         IN Append(p, p[Len(p)] + changes[Len(changes)])
PriceSeries ==
    {<<>>} \cup {Series(c) : c \in UNION {[1..n -> {-1, 1}] : n \in 0..MaxSeries - 1}}
RSIInputs == [kind : {"rsi"}, prices : PriceSeries]

\* RiskManager.executeRiskAction(alert) over the active contracts the
\* ContractManager returns (each given by its profit, named by its position):
\* the contracts sellContract is called for, in order. Every sellContract
\* the loop awaits is taken to settle; a rejected one is logged and the loop
\* goes on.
HalfTruncated(n) == n \div 2
HalfToClose(n) == (n + 1) \div 2
MostLosing(contracts) ==
    LET losing == {i \in 1..Len(contracts) : contracts[i] < 0} IN
    IF losing = {} THEN <<>>
    ELSE <<CHOOSE i \in losing :
              \A j \in losing : \/ contracts[i] < contracts[j]
                                 \/ (contracts[i] = contracts[j] /\ i <= j)>>
executeRiskAction(action, contracts) ==
    CASE action = "close_position" -> MostLosing(contracts)
      [] action = "reduce_position" ->
            [i \in 1..HalfToClose(Len(contracts)) |-> i]
      [] OTHER -> <<>>

AlertActions == {"close_position", "reduce_position", "stop_trading"}
ActiveProfits == UNION {[1..n -> {-2, -1, 1}] : n \in 0..MaxPositions}
RiskActionInputs ==
    [kind : {"riskAction"}, action : AlertActions, contracts : ActiveProfits]

\* A caller is about to make one of the calls.
InitCalc ==
    /\ InitProgram
    /\ \/ calcIn \in PositionInputs
       \/ calcIn \in RiskInputs
       \/ calcIn \in RSIInputs
       \/ calcIn \in RiskActionInputs
    /\ calcOut = NoCalc

CalculatePositionSize ==
    /\ calcIn.kind = "position" /\ calcOut.kind = "none"
    /\ calcOut' = calculatePositionSize(calcIn.accountBalance, calcIn.entryPrice,
                                        calcIn.stopLossPrice, calcIn.symbol,
                                        calcIn.rp)
    /\ UNCHANGED <<apiVars, runVars, srvVars, userVars, mdVars, cmVars, svcVars>>
    /\ UNCHANGED <<stratVars, tickVars, calcIn, closesSinceOpen, cleanup>>

ValidateTradeRisk ==
    /\ calcIn.kind = "risk" /\ calcOut.kind = "none"
    /\ calcOut' = validateTradeRisk(calcIn.amount, calcIn.symbol,
                                    calcIn.accountBalance,
                                    calcIn.currentPositions, calcIn.totalPnL,
                                    calcIn.rp)
    /\ UNCHANGED <<apiVars, runVars, srvVars, userVars, mdVars, cmVars, svcVars>>
    /\ UNCHANGED <<stratVars, tickVars, calcIn, closesSinceOpen, cleanup>>

CalculateRSI ==
    /\ calcIn.kind = "rsi" /\ calcOut.kind = "none"
    /\ calcOut' = [kind |-> "rsi", value |-> calculateRSI(calcIn.prices, 14)]
    /\ UNCHANGED <<apiVars, runVars, srvVars, userVars, mdVars, cmVars, svcVars>>
    /\ UNCHANGED <<stratVars, tickVars, calcIn, closesSinceOpen, cleanup>>

ExecuteRiskAction ==
    /\ calcIn.kind = "riskAction" /\ calcOut.kind = "none"
    /\ calcOut' = [kind |-> "riskAction",
                   sold |-> executeRiskAction(calcIn.action, calcIn.contracts)]
    /\ UNCHANGED <<apiVars, runVars, srvVars, userVars, mdVars, cmVars, svcVars>>
    /\ UNCHANGED <<stratVars, tickVars, calcIn, closesSinceOpen, cleanup>>

NextCalc ==
    \/ CalculatePositionSize
    \/ ValidateTradeRisk
    \/ CalculateRSI
    \/ ExecuteRiskAction

SpecCalc == InitCalc /\ [][NextCalc]_vars

(* ------------------------------ cleanup ------------------------------ *)
\* DerivAPI.unsubscribe(subId) on the registries: subscriptionCallbacks.delete
\* and subscriptions.delete for every id of the set.
CallbacksWithout(ids) ==
    [x \in DOMAIN subscriptionCallbacks \ ids |-> subscriptionCallbacks[x]]
SubscriptionsWithout(ids) == SelectSeq(subscriptions, LAMBDA x : x.id \notin ids)

\* The broker drops the subscription a successful forget names.
ForgottenOn(m, ok, subId) ==
    IF ok THEN {x \in srvSubs : ~(x.s = m.s /\ x.id = subId)} ELSE srvSubs

\* The next entry of contractSubscriptions after the one under contract id
\* pos (ascending contract ids, the order the entries were inserted in),
\* 0 at the end of the Map.
NextContractSub(pos) ==
    LET later == {k \in DOMAIN contractSubscriptions : k > pos} IN
    IF later = {} THEN 0 ELSE CHOOSE k \in later : \A j \in later : k <= j

\* The first loop of ContractManager.cleanup runs from the entry after pos
\* up to its next await: it calls derivAPI.unsubscribe for that entry; at
\* the end of the Map (the proposal loop finds no recorded quote stream
\* here) both maps are cleared and cleanup returns.
ContractCleanupStep(pos, st) ==
    LET k == NextContractSub(pos) IN
    IF k = 0
    THEN [cm |-> [st |-> "done", pos |-> pos], st |-> st, forgot |-> {},
          subs |-> Empty]
    ELSE [cm |-> [st |-> "waiting", pos |-> k],
          st |-> send(st, "cleanContract", contractSubscriptions[k], 0),
          forgot |-> {contractSubscriptions[k]},
          subs |-> contractSubscriptions]

\* ContractManager.cleanup() up to its first await.
CleanupContracts ==
    /\ cleanup.cm.st = "idle"
    /\ LET r == ContractCleanupStep(0, Cur) IN
        /\ cleanup' = [cleanup EXCEPT !.cm = r.cm]
        /\ requestId' = r.st.requestId
        /\ callbacks' = r.st.callbacks
        /\ wire' = r.st.wire
        /\ subscriptionCallbacks' = CallbacksWithout(r.forgot)
        /\ subscriptions' = SubscriptionsWithout(r.forgot)
        /\ contractSubscriptions' = r.subs
    /\ UNCHANGED <<connVars, isAuthorized, currentAccount, srvSubs>>
    /\ UNCHANGED <<runVars, userVars, mdVars, activeContracts, contractObjs, now>>
    /\ UNCHANGED svcVars
    /\ UNCHANGED <<stratVars, tickVars, calcVars, closesSinceOpen>>

\* The forget response ContractManager.cleanup awaits arrives: an error is
\* logged, and the loop goes on with the next entry.
RespCleanContract(m, ok) ==
    /\ Deliverable(m) /\ m.op = "cleanContract"
    /\ srvSubs' = ForgottenOn(m, ok, m.arg)
    /\ LET r == ContractCleanupStep(cleanup.cm.pos,
                                    [requestId |-> requestId,
                                     callbacks |-> Answered(m.req),
                                     wire |-> wire \ {m}]) IN
        /\ cleanup' = [cleanup EXCEPT !.cm = r.cm]
        /\ requestId' = r.st.requestId
        /\ callbacks' = r.st.callbacks
        /\ wire' = r.st.wire
        /\ subscriptionCallbacks' = CallbacksWithout(r.forgot)
        /\ subscriptions' = SubscriptionsWithout(r.forgot)
        /\ contractSubscriptions' = r.subs
    /\ UNCHANGED <<connVars, isAuthorized, currentAccount>>
    /\ UNCHANGED <<runVars, userVars, mdVars, activeContracts, contractObjs, now>>
    /\ UNCHANGED svcVars
    /\ UNCHANGED <<stratVars, tickVars, calcVars, closesSinceOpen>>

RECURSIVE forgetEach(_, _, _)
\* One derivAPI.unsubscribe(subId) per subscription id of the set, in
\* ascending order; each request carries the key its id was recorded under.
forgetEach(st, op, keyOf) ==
    IF DOMAIN keyOf = {} THEN st
    ELSE LET i == CHOOSE x \in DOMAIN keyOf : \A j \in DOMAIN keyOf : x <= j
         IN forgetEach(send(st, op, <<i, keyOf[i]>>, 0), op,
                       [x \in DOMAIN keyOf \ {i} |-> keyOf[x]])

\* What one settled unsubscribe makes of a cleanup that awaits
\* Promise.all: the first rejection rejects it, the last fulfilment lets it
\* go on.
AfterSettled(c, ok) ==
    [st |-> IF c.st # "waiting" THEN c.st
            ELSE IF ~ok THEN "failed"
            ELSE IF c.left = 1 THEN "done" ELSE "waiting",
     left |-> c.left - 1]

\* The tick subscriptions recorded: subscription id -> symbol.
TickSubsById ==
    LET ids == {tickSubscriptions[y] : y \in Symbols} \ {0} IN
    [i \in ids |-> CHOOSE y \in Symbols : tickSubscriptions[y] = i]

\* MarketDataService.cleanup() up to its await: unsubscribeFromTicks for
\* every subscribed symbol (entry deleted, forget sent); with nothing to
\* wait for the data is cleared.
CleanupMarketData ==
    /\ cleanup.md.st = "idle"
    /\ LET byId == TickSubsById
           st == forgetEach(Cur, "cleanTicks", byId)
           n == Cardinality(DOMAIN byId)
       IN /\ requestId' = st.requestId
          /\ callbacks' = st.callbacks
          /\ wire' = st.wire
          /\ subscriptionCallbacks' = CallbacksWithout(DOMAIN byId)
          /\ subscriptions' = SubscriptionsWithout(DOMAIN byId)
          /\ tickCancelled' = tickCancelled \cup
                {p[1] : p \in {q \in tickIssued : tickSubscriptions[q[2]] # 0}}
          /\ cleanup' = [cleanup EXCEPT !.md =
                            [st |-> IF n = 0 THEN "done" ELSE "waiting", left |-> n]]
          /\ priceHistory' = IF n = 0 THEN [y \in Symbols |-> <<>>] ELSE priceHistory
          /\ priceAlerts' = IF n = 0 THEN <<>> ELSE priceAlerts
    /\ tickSubscriptions' = [y \in Symbols |-> 0]
    /\ UNCHANGED <<connVars, isAuthorized, currentAccount, srvSubs>>
    /\ UNCHANGED <<runVars, userVars, cmVars, tickIssued, staleTick>>
    /\ UNCHANGED svcVars
    /\ UNCHANGED <<stratVars, tickEpoch, calcVars, closesSinceOpen>>

\* A forget response MarketDataService.cleanup awaits arrives; after the
\* last one the maps are cleared, after an error cleanup throws.
RespCleanTicks(m, ok) ==
    /\ Deliverable(m) /\ m.op = "cleanTicks"
    /\ wire' = wire \ {m}
    /\ callbacks' = Answered(m.req)
    /\ srvSubs' = ForgottenOn(m, ok, m.arg[1])
    /\ cleanup' = [cleanup EXCEPT !.md = AfterSettled(@, ok)]
    /\ LET cleared == cleanup.md.st = "waiting" /\ cleanup'.md.st = "done" IN
        /\ tickSubscriptions' = IF cleared THEN [y \in Symbols |-> 0]
                                ELSE tickSubscriptions
        /\ priceHistory' = IF cleared THEN [y \in Symbols |-> <<>>] ELSE priceHistory
        /\ priceAlerts' = IF cleared THEN <<>> ELSE priceAlerts
    /\ UNCHANGED <<connVars, requestId, subscriptionCallbacks, subscriptions,
                   isAuthorized, currentAccount>>
    /\ UNCHANGED <<runVars, userVars, cmVars, tickIssued, tickCancelled, staleTick>>
    /\ UNCHANGED svcVars
    /\ UNCHANGED <<stratVars, tickEpoch, calcVars, closesSinceOpen>>

\* The balance subscriptions recorded: subscription id -> login id.
BalanceSubsById ==
    LET ids == {balanceSubscriptions[l] : l \in DOMAIN balanceSubscriptions} IN
    [i \in ids |-> CHOOSE l \in DOMAIN balanceSubscriptions :
                      balanceSubscriptions[l] = i]

\* AccountService.cleanup() up to its await: unsubscribeFromBalance for
\* every recorded login id sends its forget; with nothing to wait for the
\* data is cleared.
CleanupAccounts ==
    /\ cleanup.acct.st = "idle"
    /\ LET byId == BalanceSubsById
           st == forgetEach(Cur, "cleanBalance", byId)
           n == Cardinality(DOMAIN byId)
       IN /\ requestId' = st.requestId
          /\ callbacks' = st.callbacks
          /\ wire' = st.wire
          /\ subscriptionCallbacks' = CallbacksWithout(DOMAIN byId)
          /\ subscriptions' = SubscriptionsWithout(DOMAIN byId)
          /\ cleanup' = [cleanup EXCEPT !.acct =
                            [st |-> IF n = 0 THEN "done" ELSE "waiting", left |-> n]]
          /\ accounts' = IF n = 0 THEN Empty ELSE accounts
          /\ activeAccount' = IF n = 0 THEN "" ELSE activeAccount
          /\ transactionHistory' = IF n = 0 THEN {} ELSE transactionHistory
          /\ profitHistory' = IF n = 0 THEN {} ELSE profitHistory
    /\ UNCHANGED <<connVars, isAuthorized, currentAccount, srvSubs,
                   balanceSubscriptions, srvAccount, activeProposals>>
    /\ UNCHANGED <<runVars, userVars, mdVars, cmVars>>
    /\ UNCHANGED <<stratVars, tickVars, calcVars, closesSinceOpen>>

\* A forget response AccountService.cleanup awaits arrives:
\* unsubscribeFromBalance deletes the entry of its login id after a
\* successful one and throws after an error; after the last successful one
\* the maps are cleared.
RespCleanBalance(m, ok) ==
    /\ Deliverable(m) /\ m.op = "cleanBalance"
    /\ wire' = wire \ {m}
    /\ callbacks' = Answered(m.req)
    /\ srvSubs' = ForgottenOn(m, ok, m.arg[1])
    /\ cleanup' = [cleanup EXCEPT !.acct = AfterSettled(@, ok)]
    /\ LET cleared == cleanup.acct.st = "waiting" /\ cleanup'.acct.st = "done" IN
        /\ balanceSubscriptions' =
              IF cleared THEN Empty
              ELSE IF ok /\ m.arg[2] \in DOMAIN balanceSubscriptions
              THEN Del(balanceSubscriptions, m.arg[2])
              ELSE balanceSubscriptions
        /\ accounts' = IF cleared THEN Empty ELSE accounts
        /\ activeAccount' = IF cleared THEN "" ELSE activeAccount
        /\ transactionHistory' = IF cleared THEN {} ELSE transactionHistory
        /\ profitHistory' = IF cleared THEN {} ELSE profitHistory
    /\ UNCHANGED <<connVars, requestId, subscriptionCallbacks, subscriptions,
                   isAuthorized, currentAccount, srvAccount, activeProposals>>
    /\ UNCHANGED <<runVars, userVars, mdVars, cmVars>>
    /\ UNCHANGED <<stratVars, tickVars, calcVars, closesSinceOpen>>

(* --------------------------- trading context -------------------------- *)
MaxContextCalls == 2  \* buyContract / executeStrategy calls issued through the context

\* The risk parameters after updateRiskParameters({ maxOpenPositions: 1 }).
ContextRisk == [DefaultRisk EXCEPT !.maxOpenPositions = 1]
ContextBalance == 1000

\* state.activeContracts of the TradingProvider: one entry for every contract
\* a buy has returned (ADD_CONTRACT), here without sellContract calls
\* (REMOVE_CONTRACT); the entries in the order of their contract ids.
ContextContracts ==
    LET ids == DOMAIN contractObjs
        order == CHOOSE f \in [1..Cardinality(ids) -> ids] :
                    \A i, j \in 1..Cardinality(ids) : i < j => f[i] < f[j]
    IN [i \in 1..Cardinality(ids) |->
            [symbol |-> contractObjs[order[i]].symbol, amount |-> 1]]

RECURSIVE SumProfit(_)
\* ContractManager.getTotalPnL() over the contracts with the ids in `ids`
SumProfit(ids) ==
    IF ids = {} THEN 0
    ELSE LET o == CHOOSE x \in ids : TRUE
         IN contractObjs[o].profit + SumProfit(ids \ {o})

\* The contracts ContractManager.getActiveContracts() returns.
TrackedActive ==
    {k \in DOMAIN activeContracts : contractObjs[activeContracts[k]].status = "active"}

\* TradingProvider.buyContract(proposalId, price, metadata) up to its await:
\* with metadata (given by its symbol, "" = no metadata) the trade is
\* validated first and a refused trade throws; then
\* contractManager.buyContract sends the buy request.
TradingBuyContract(metadata) ==
    /\ Len(calls) < MaxContextCalls
    /\ LET validation ==
              validateTradeRisk(1, metadata, ContextBalance, ContextContracts,
                                SumProfit({activeContracts[k] : k \in DOMAIN activeContracts}),
                                ContextRisk)
       IN IF metadata # "" /\ ~validation.isValid
          THEN /\ calls' = Append(calls, [op |-> "buy", arg |-> metadata,
                                          st |-> "rejected", sent |-> FALSE])
               /\ UNCHANGED <<requestId, callbacks, wire>>
          ELSE /\ calls' = NewCall("buy", metadata)
               /\ LET st == send(Cur, "buy", metadata, Len(calls) + 1) IN
                   /\ requestId' = st.requestId
                   /\ callbacks' = st.callbacks
                   /\ wire' = st.wire
    /\ UNCHANGED <<ws, subscriptionCallbacks, subscriptions, connectionState,
                   reconnectAttempts, keepAliveInterval, isAuthorized,
                   currentAccount, srvSubs, userConnects, userDisconnected>>
    /\ UNCHANGED <<runVars, mdVars, cmVars>>
    /\ UNCHANGED svcVars
    /\ UNCHANGED extVars

\* TradingProvider.executeStrategy(name): contractManager.executeStrategy,
\* without validation.
TradingExecuteStrategy(name) ==
    /\ Len(calls) < MaxContextCalls
    /\ ExecuteStrategy(name)

(* --------------------------- specifications --------------------------- *)
\* Buys issued through the trading context on the first connection.
NextTrading ==
    \/ OnOpen(1)
    \/ ClockTick
    \/ \E cfg \in StrategyConfigs : cfg.limits = NoLimits /\ cfg.enabled /\ CreateStrategy(cfg)
    \/ \E n \in StrategyNames : TradingExecuteStrategy(n)
    \/ \E m \in wire : RespStrategyProposal(m, TRUE)
    \/ \E metadata \in Symbols \cup {""} : TradingBuyContract(metadata)
    \/ \E m \in wire, ok \in BOOLEAN : RespBuy(m, ok)
    \/ \E m \in wire, e \in BOOLEAN, p \in Profits : RespSubscribeContract(m, e, FALSE, p)

SpecTrading == Init /\ [][NextTrading]_vars

\* The three services subscribe on the first connection and are cleaned up;
\* the callers start nothing new once a cleanup has begun.
CleanupResponses ==
    \/ \E m \in wire, ok \in BOOLEAN : RespCleanContract(m, ok)
    \/ \E m \in wire, ok \in BOOLEAN : RespCleanTicks(m, ok)
    \/ \E m \in wire, ok \in BOOLEAN : RespCleanBalance(m, ok)

MaxCleanupBuys == 2   \* buyContract calls issued before the cleanup

\* A caller may start an operation: no cleanup has begun and fewer than n
\* calls of the operation were made.
Starting(op, n) ==
    /\ cleanup = NoCleanup
    /\ Cardinality({i \in 1..Len(calls) : calls[i].op = op}) < n

NextCleanup ==
    \/ OnOpen(1)
    \/ OnClose(1)
    \/ Starting("buy", MaxCleanupBuys) /\ BuyContract
    \/ \E m \in wire : RespBuy(m, TRUE)
    \/ \E m \in wire : RespSubscribeContract(m, FALSE, FALSE, 1)
    \/ \E y \in Symbols :
          cleanup = NoCleanup /\ tickIssued = {} /\ SubscribeToTicks(y)
    \/ \E m \in wire : RespSubscribeTicks(m, TRUE, BaseQuote, MaxTicks)
    \/ \E t \in Tokens : Starting("authenticate", 1) /\ Authenticate(t)
    \/ \E m \in wire : RespAuthenticate(m, TRUE)
    \/ \E m \in wire : RespSubscribeBalance(m, TRUE)
    \/ CleanupContracts
    \/ CleanupMarketData
    \/ CleanupAccounts
    \/ CleanupResponses

SpecCleanup == Init /\ [][NextCleanup]_vars

\* The same, where the broker answers every forget request it holds.
SpecCleanupFair == SpecCleanup /\ WF_vars(CleanupResponses)


\* Strategies executed over a reconnecting client.
NextStrategy ==
    \/ \E s \in 1..MaxTradeSock : OnOpen(s)
    \/ \E s \in 1..MaxTradeSock : OnClose(s)
    \/ \E i \in 1..MaxTradeSock : ReconnectTimer(i, MaxTradeSock)
    \/ ClockTick
    \/ \E cfg \in StrategyConfigs : CreateStrategy(cfg)
    \/ \E n \in ExecuteNames : ExecuteStrategy(n)
    \/ \E m \in wire, ok \in BOOLEAN : RespStrategyProposal(m, ok)
    \/ \E m \in wire, ok \in BOOLEAN : RespBuy(m, ok)

SpecStrategy == Init /\ [][NextStrategy]_vars

\* Contracts bought by strategies and managed by autoManageContracts, on the
\* first connection.
NextManage ==
    \/ OnOpen(1)
    \/ OnClose(1)
    \/ ClockTick
    \/ \E cfg \in StrategyConfigs : CreateStrategy(cfg)
    \/ \E n \in StrategyNames : ExecuteStrategy(n)
    \/ \E m \in wire : RespStrategyProposal(m, TRUE)
    \/ \E m \in wire : RespBuy(m, TRUE)
    \/ \E m \in wire, e, d \in BOOLEAN, p \in Profits : RespSubscribeContract(m, e, d, p)
    \/ AutoManageContracts
    \/ \E m \in wire, ok \in BOOLEAN : RespAutoSell(m, ok)

SpecManage == Init /\ [][NextManage]_vars

\* Buying, selling and open-contract pushes over a reconnecting client.
NextContract ==
    \/ \E s \in 1..MaxTradeSock : OnOpen(s)
    \/ \E s \in 1..MaxTradeSock : OnClose(s)
    \/ \E i \in 1..MaxTradeSock : ReconnectTimer(i, MaxTradeSock)
    \/ ClockTick
    \/ BuyContract
    \/ \E m \in wire, ok \in BOOLEAN : RespBuy(m, ok)
    \/ \E m \in wire, e, d \in BOOLEAN, p \in Profits : RespSubscribeContract(m, e, d, p)
    \/ \E m \in wire : RespSubscribeContractError(m)
    \/ \E x \in srvSubs, e, d \in BOOLEAN, p \in Profits : ContractPush(x, e, d, p)
    \/ \E k \in 1..MaxClock : SellContract(k)
    \/ \E m \in wire, ok \in BOOLEAN : RespSell(m, ok)

SpecContract == Init /\ [][NextContract]_vars

\* Tick subscriptions, pushes and history loads on the first connection.
NextHistory ==
    \/ OnOpen(1)
    \/ \E y \in Symbols : SubscribeToTicks(y)
    \/ \E m \in wire : RespSubscribeTicks(m, TRUE, BaseQuote, MaxHistTicks)
    \/ \E x \in srvSubs : TickPush(x, BaseQuote, MaxHistTicks)
    \/ \E y \in Symbols, c \in HistoryCounts : GetHistoricalTicks(y, c)
    \/ \E m \in wire, ok \in BOOLEAN : RespHistoricalTicks(m, ok)

SpecHistory == Init /\ [][NextHistory]_vars

\* Price alerts over the ticks of a subscription on the first connection.
NextAlert ==
    \/ OnOpen(1)
    \/ \E y \in Symbols : SubscribeToTicks(y)
    \/ \E m \in wire, ok \in BOOLEAN, q \in Quotes :
          RespSubscribeTicks(m, ok, q, MaxAlertTicks)
    \/ \E x \in srvSubs, q \in Quotes : TickPush(x, q, MaxAlertTicks)
    \/ \E y \in Symbols, c \in AlertConditions : CreatePriceAlert(y, c, BaseQuote)

SpecAlert == Init /\ [][NextAlert]_vars

\* Quote requests over a reconnecting client.
NextProposal ==
    \/ \E s \in 1..MaxTradeSock : OnOpen(s)
    \/ \E s \in 1..MaxTradeSock : OnClose(s)
    \/ \E i \in 1..MaxTradeSock : ReconnectTimer(i, MaxTradeSock)
    \/ \E p \in ProposalParams : CreateProposal(p)
    \/ \E m \in wire, ok \in BOOLEAN : RespProposal(m, ok)

SpecProposal == Init /\ [][NextProposal]_vars

\* Authentication and account switching over a reconnecting client.
NextAccount ==
    \/ \E s \in 1..MaxAcctSock : OnOpen(s)
    \/ \E s \in 1..MaxAcctSock : OnClose(s)
    \/ \E i \in 1..MaxAcctSock : ReconnectTimer(i, MaxAcctSock)
    \/ \E t \in Tokens : Authenticate(t)
    \/ \E m \in wire, ok \in BOOLEAN : RespAuthenticate(m, ok)
    \/ \E m \in wire, ok \in BOOLEAN : RespSubscribeBalance(m, ok)
    \/ \E l \in AccountIds : SwitchAccount(l)
    \/ \E m \in wire, ok \in BOOLEAN : RespForgetBalance(m, ok)
    \/ \E m \in wire, ok \in BOOLEAN : RespSwitch(m, ok)
    \/ \E m \in wire, ok \in BOOLEAN : RespGetBalance(m, ok)
    \/ \E m \in wire, ok \in BOOLEAN : RespStatement(m, ok)
    \/ \E m \in wire, ok \in BOOLEAN : RespProfitTable(m, ok)

SpecAccount == Init /\ [][NextAccount]_vars

\* Balances of one user's accounts on the first connection: authenticate,
\* switchAccount, getAccountBalance, refreshAllAccounts and balance pushes.
NextBalance ==
    \/ OnOpen(1)
    \/ Authenticate("t1")
    \/ \E m \in wire : RespAuthenticate(m, TRUE)
    \/ \E m \in wire : RespSubscribeBalance(m, TRUE)
    \/ \E l \in AccountList("t1") : SwitchAccount(l)
    \/ \E m \in wire : RespForgetBalance(m, TRUE)
    \/ \E m \in wire : RespSwitch(m, TRUE)
    \/ \E m \in wire : RespGetBalance(m, TRUE)
    \/ \E m \in wire, ok \in BOOLEAN : RespStatement(m, ok)
    \/ \E m \in wire : RespProfitTable(m, TRUE)
    \/ \E l \in AccountList("t1") \cup {""} : GetAccountBalance(l)
    \/ \E m \in wire, ok \in BOOLEAN : RespAccountBalance(m, ok)
    \/ RefreshAllAccounts
    \/ \E x \in srvSubs : BalancePush(x)

SpecBalance == Init /\ [][NextBalance]_vars

\* Connection manager alone: every interleaving of connect(), disconnect(),
\* open/close events and reconnect timers.
NextConn ==
    \/ Connect(MaxChain)
    \/ Disconnect
    \/ \E s \in 1..MaxChain : OnOpen(s)
    \/ \E s \in 1..MaxChain : OnClose(s)
    \/ \E i \in 1..MaxChain : ReconnectTimer(i, MaxChain)
    \/ \E i \in 1..MaxChain : KeepAliveTick(i)
    \/ \E m \in wire : RespPing(m)

SpecConn == Init /\ [][NextConn]_vars

\* Requests and tick subscriptions over a reconnecting client.
Next ==
    \/ Disconnect
    \/ \E s \in 1..MaxSock : OnOpen(s)
    \/ \E s \in 1..MaxSock : OnClose(s)
    \/ \E i \in 1..MaxSock : ReconnectTimer(i, MaxSock)
    \/ Authorize
    \/ \E m \in wire, ok \in BOOLEAN, l \in LoginIds : RespAuthorize(m, ok, l)
    \/ \E m \in wire, ok \in BOOLEAN : RespForget(m, ok)
    \/ \E y \in Symbols : SubscribeToTicks(y)
    \/ \E m \in wire, ok \in BOOLEAN : RespSubscribeTicks(m, ok, BaseQuote, MaxTicks)
    \/ \E x \in srvSubs : TickPush(x, BaseQuote, MaxTicks)
    \/ \E y \in Symbols : UnsubscribeFromTicks(y)

Spec == Init /\ [][Next]_vars

\* Authorization over every interleaving of connect(), disconnect(),
\* open/close events and reconnect timers.
NextAuth ==
    \/ Connect(MaxSock)
    \/ Disconnect
    \/ \E s \in 1..MaxSock : OnOpen(s)
    \/ \E s \in 1..MaxSock : OnClose(s)
    \/ \E i \in 1..MaxSock : ReconnectTimer(i, MaxSock)
    \/ Authorize
    \/ \E m \in wire, ok \in BOOLEAN, l \in LoginIds : RespAuthorize(m, ok, l)

SpecAuth == Init /\ [][NextAuth]_vars

(* ------------------------------- claims ------------------------------- *)
\* C1: every request operation issued while the transport is not open is
\* rejected at once with a connection-not-available error (it is never left
\* pending).
C1_RefusedRequestRejects ==
    \A i \in 1..Len(calls) : ~calls[i].sent => calls[i].st = "rejected"

\* C2: when the connection closes, every request still awaiting its response
\* is rejected and removed from the pending-request map: no entry of the map
\* was sent on a socket that has closed.
C2_NoPendingSurvivesClose ==
    \A r \in DOMAIN callbacks : sock[callbacks[r].via] # "closed"

\* C3: once the caller has unsubscribed, no handler it unsubscribed is still
\* registered in the client and none receives a later message, whenever the
\* unsubscribe came relative to the subscribe acknowledgment.
C3_NoHandlerAfterUnsubscribe ==
    /\ ~staleTick
    /\ \A h \in tickCancelled :
         \A id \in DOMAIN subscriptionCallbacks : subscriptionCallbacks[id].h # h

\* C4 (as claimed): a Contract whose status is won, lost or sold keeps that
\* status in every later step.
C4_TerminalStatusIsFinal ==
    [][\A o \in DOMAIN contractObjs :
         contractObjs[o].status \in Terminal
            => contractObjs'[o].status = contractObjs[o].status]_vars

\* The step is a successful sell response for Contract o.
SellAcknowledged(o) ==
    \E m \in wire : m.op = "sell" /\ m.arg[1] = o /\ RespSell(m, TRUE)

\* The step is a broker message on the open-contract stream reporting a sold,
\* unexpired contract.
SoldReported ==
    \/ \E m \in wire, p \in Profits : RespSubscribeContract(m, FALSE, TRUE, p)
    \/ \E x \in srvSubs, p \in Profits : ContractPush(x, FALSE, TRUE, p)

\* The step is an error response to the pending sell call i.
SellFailed(i) ==
    \E m \in wire : /\ m.op = "sell" /\ CallOf(m.req) = i
                    /\ RespSell(m, FALSE)

C6_NoReconnectAfterDisconnect ==
    [][(userDisconnected /\ userDisconnected')
         => (nsock' = nsock /\ connectionState' = "disconnected")]_vars

\* C7: right after disconnect() returns, the pending-request map and the
\* subscription registry are both empty.
C7_DisconnectClearsTracking ==
    [][Disconnect => (/\ callbacks' = Empty
                      /\ subscriptions' = <<>>
                      /\ subscriptionCallbacks' = Empty)]_vars

\* C8: once the reconnect attempts are exhausted the state is the errored
\* state and no reconnect remains scheduled.
C8_ErrorStateSchedulesNothing ==
    connectionState = "error" => timers = <<>>

\* C9: connect() called while the current transport is open or connecting
\* creates no transport and leaves transport and connection state unchanged.
C9_ConnectIdempotent ==
    [][(userConnects' = userConnects + 1 /\ sock[ws] \in {"connecting", "open"})
         => (nsock' = nsock /\ ws' = ws /\ sock' = sock
             /\ connectionState' = connectionState)]_vars

\* Sockets whose open, message or close events can still reach the client.
LiveSockets == {s \in DOMAIN sock : sock[s] \in {"connecting", "open", "closing"}}

\* C10: the client owns at most one live transport in every reachable state.
C10_AtMostOneTransport == Cardinality(LiveSockets) <= 1

\* C11: every request written to the socket carries an id that is at least
\* the counter before the step and below the counter after it, one id per
\* message, and every id handed out earlier is below the counter: ids only
\* grow and are never shared, across reconnects too. A step taken while the
\* transport is not open leaves the counter where it was.
C11_RequestIdsIncrease ==
    [][/\ requestId' >= requestId
       /\ ~IsOpen => requestId' = requestId
       /\ \A m \in wire : m.req < requestId
       /\ \A r \in DOMAIN callbacks : r < requestId
       /\ \A m \in wire' \ wire : m.req >= requestId /\ m.req < requestId'
       /\ \A m1, m2 \in wire' \ wire : m1.req = m2.req => m1 = m2
       /\ Cardinality(wire' \ wire) = requestId' - requestId]_vars

\* C11 witness: two requests sent on different sockets (one before and one
\* after a reconnect) are pending under different ids, and one call was
\* refused in between.
C11_Witness ==
    /\ \E r1, r2 \in DOMAIN callbacks :
          r1 < r2 /\ callbacks[r1].via < callbacks[r2].via
    /\ \E i \in 1..Len(calls) : ~calls[i].sent

\* C12 (as claimed): a pending entry is removed once its response has been
\* delivered, so no entry is left whose request was sent on a socket that is
\* still open and is no longer awaited from the broker; such an entry would
\* run its callback again on a repeated message.
C12_AnsweredEntryRemoved ==
    \A r \in DOMAIN callbacks :
        sock[callbacks[r].via] = "open" => \E m \in wire : m.req = r

\* C13 (as claimed): among the registered subscription handlers there is at
\* most one per kind and routing key.
C13_OneSubscriptionPerKey ==
    \A a, b \in DOMAIN subscriptionCallbacks :
        (/\ subscriptionCallbacks[a].kind = subscriptionCallbacks[b].kind
         /\ subscriptionCallbacks[a].key = subscriptionCallbacks[b].key) => a = b

\* C14 (as claimed): every entry of the subscription registry is a
\* subscription the broker holds on a connection that has not closed.
C14_NoSubscriptionSurvivesClose ==
    \A i \in 1..Len(subscriptions) :
        \E x \in srvSubs : x.id = subscriptions[i].id /\ sock[x.s] # "closed"

\* The tracked accounts marked active.
ActiveAccounts == {a \in DOMAIN accounts : accounts[a].isActive}

\* C15 (as claimed): once every authenticate and switchAccount call issued
\* has succeeded, exactly one tracked account is marked active, and it is the
\* account of the login id the broker confirmed last.
C15_ExactlyOneActive ==
    (calls # <<>> /\ \A i \in 1..Len(calls) : calls[i].st = "resolved")
        => ActiveAccounts = {currentAccount}

\* The balance handlers registered in the client.
LiveBalanceSubs ==
    {id \in DOMAIN subscriptionCallbacks :
        subscriptionCallbacks[id].kind = "balance"}

\* C16 (as claimed): after a successful authenticate followed by a successful
\* switchAccount, no more than one balance subscription is registered,
\* whenever the acknowledgment of the first subscribe arrived.
C16_OneBalanceSubscription ==
    (/\ Len(calls) = 2
     /\ calls[1].op = "authenticate" /\ calls[1].st = "resolved"
     /\ calls[2].op = "switchAccount" /\ calls[2].st = "resolved")
        => Cardinality(LiveBalanceSubs) <= 1

\* C17: a switchAccount step for a login id that is not tracked rejects the
\* call, sends nothing and leaves the accounts, the active account, the
\* balance subscriptions and the subscription registry as they were.
C17_UnknownAccountRejected ==
    [][\A l \in AccountIds :
         (SwitchAccount(l) /\ l \notin DOMAIN accounts)
            => /\ calls'[Len(calls')].st = "rejected"
               /\ requestId' = requestId /\ wire' = wire
               /\ callbacks' = callbacks
               /\ accounts' = accounts /\ activeAccount' = activeAccount
               /\ currentAccount' = currentAccount
               /\ balanceSubscriptions' = balanceSubscriptions
               /\ subscriptions' = subscriptions
               /\ subscriptionCallbacks' = subscriptionCallbacks
               /\ srvSubs' = srvSubs]_vars

\* C17 witness: with accounts tracked, a balance subscription live and the
\* socket open, a switchAccount to an untracked login id was rejected without
\* being sent.
C17_Witness ==
    /\ IsOpen /\ accounts # Empty /\ LiveBalanceSubs # {}
    /\ \E i \in 1..Len(calls) :
         /\ calls[i].op = "switchAccount" /\ calls[i].st = "rejected"
         /\ ~calls[i].sent /\ calls[i].arg \notin DOMAIN accounts

C19_SellOnlyActive ==
    [][\A k \in 1..MaxClock :
         (/\ SellContract(k)
          /\ (k \in DOMAIN activeContracts
                => contractObjs[activeContracts[k]].status # "active"))
            => wire' = wire]_vars

\* C20 (as claimed): a createProposal step whose parameters lack the symbol,
\* the contract type, the duration unit or the basis, or whose amount or
\* duration is not positive, sends no request.
C20_InvalidProposalNotSent ==
    [][\A p \in ProposalParams :
         (CreateProposal(p) /\ ~validateTradeParams(p)) => wire' = wire]_vars
\* C21: executeStrategy(name) for a name under which no strategy or a
\* disabled one is stored fails at once: it sends no request, creates no
\* Contract and its promise is rejected; for an enabled strategy the only
\* request it sends itself is the quote request, and a buy request is written
\* only by the step in which the quote response arrives without an error.
C21_StrategyGate ==
    [][/\ \A n \in ExecuteNames :
            ExecuteStrategy(n) =>
               IF \E i \in 1..Len(strategies) :
                     strategies[i].name = n /\ strategies[i].enabled
               THEN \A m \in wire' \ wire : m.op = "strategyProposal"
               ELSE /\ wire' = wire /\ callbacks' = callbacks
                    /\ requestId' = requestId
                    /\ contractObjs' = contractObjs
                    /\ activeContracts' = activeContracts
                    /\ calls'[Len(calls')].op = "executeStrategy"
                    /\ calls'[Len(calls')].st = "rejected"
       /\ \A m \in wire' \ wire :
            m.op = "buy" =>
               \E q \in wire : q.op = "strategyProposal"
                               /\ RespStrategyProposal(q, TRUE)]_vars

\* A call for a missing or disabled strategy was rejected without a request
\* and a call for an enabled one has bought a contract.
C21_Witness ==
    \E i, j \in DOMAIN calls :
        /\ calls[i].op = "executeStrategy" /\ calls[i].st = "rejected"
        /\ ~calls[i].sent
        /\ calls[j].op = "executeStrategy" /\ calls[j].st = "resolved"
        /\ \E o \in DOMAIN contractObjs : contractObjs[o].symbol \in Symbols

\* C22: for every symbol the retained tick history holds at most 1000
\* entries, in arrival order and without a gap up to the latest tick: it is
\* the most recent ticks, whatever tick pushes and history loads came before.
C22_HistoryBounded ==
    \A y \in Symbols :
        LET h == priceHistory[y] IN
        /\ Len(h) <= HistoryLimit
        /\ \A i \in 1..Len(h) - 1 : h[i + 1].epoch = h[i].epoch + 1
        /\ h # <<>> => h[Len(h)].epoch = tickEpoch

\* 1005 ticks were pushed and the first five of them are gone.
PushesEvictOldest ==
    \E y \in Symbols :
        /\ tickEpoch = HistoryLimit + 5
        /\ Len(priceHistory[y]) = HistoryLimit
        /\ priceHistory[y][1].epoch = 6

\* C23: a crosses_above alert with target T fires only in a step whose tick
\* has a price above T while the price the alert had recorded before was at
\* or below T; it fires once, is inactive from then on, and an inactive alert
\* is never changed or fired again by any later tick.
C23_CrossAboveOnce ==
    [][\A i \in 1..Len(priceAlerts) :
          priceAlerts[i].condition = "crosses_above" =>
             LET a == priceAlerts[i]
                 b == priceAlerts'[i]
             IN /\ b.fired # a.fired =>
                      /\ a.isActive /\ a.fired = 0 /\ b.fired = 1
                      /\ b.currentPrice > a.targetPrice
                      /\ a.currentPrice # 0
                      /\ a.currentPrice <= a.targetPrice
                /\ ~a.isActive => b = a
                /\ b.isActive <=> b.fired = 0]_vars

\* A crosses_above alert has fired, and after it the price dipped to the
\* target or below and crossed it again.
C23_Witness ==
    \E i \in 1..Len(priceAlerts), y \in Symbols :
        LET a == priceAlerts[i]
            h == priceHistory[y]
        IN /\ a.condition = "crosses_above" /\ a.symbol = y
           /\ a.fired = 1 /\ ~a.isActive
           /\ Len(h) >= 2
           /\ a.triggeredAt < h[Len(h) - 1].epoch
           /\ h[Len(h) - 1].quote <= a.targetPrice
           /\ h[Len(h)].quote > a.targetPrice

\* C24: with a stop-loss price, the recommended stake is the one whose loss
\* on a move from the entry price to the stop-loss price, stake / entry units
\* times the distance, is the budgeted risk balance * maxRiskPerTrade / 100,
\* up to the rounding of the stake down to whole units.
C24_LossAtStopIsBudget ==
    (calcOut.kind = "position" /\ calcIn.stopLossPrice # 0
       /\ calcIn.stopLossPrice # calcIn.entryPrice) =>
        LET distance == Abs(calcIn.entryPrice - calcIn.stopLossPrice)
            budget == calcIn.accountBalance * calcIn.rp.maxRiskPerTrade
        IN /\ calcOut.recommendedAmount * distance * 100
                 <= budget * calcIn.entryPrice
           /\ budget * calcIn.entryPrice
                 < (calcOut.recommendedAmount + 1) * distance * 100

\* C25: neither the recommended nor the maximum stake calculatePositionSize
\* returns exceeds 10% of the account balance.
C25_StakeWithinTenPercent ==
    calcOut.kind = "position" =>
        /\ calcOut.recommendedAmount * 10 <= calcIn.accountBalance
        /\ calcOut.maxAmount * 10 <= calcIn.accountBalance

\* The limits of validateTradeRisk other than the position cap, for its
\* arguments: today's P&L above the negative daily-loss cap, the stake at
\* most the maximum stake (2% of the balance twice, at most 10%, in whole
\* units), the exposure of the symbol with the stake within 5% of the
\* balance, and the drawdown below its cap.
OtherLimitsKept ==
    LET exposure == Cardinality({i \in 1..Len(calcIn.currentPositions) :
                        calcIn.currentPositions[i].symbol = calcIn.symbol}) * 10
    IN /\ 0 > -calcIn.rp.maxDailyLoss
       /\ calcIn.amount * 100 <= Max(100, 4 * calcIn.accountBalance)
       /\ calcIn.amount * 10 <= Max(10, calcIn.accountBalance)
       /\ (exposure + calcIn.amount) * 100 <= 5 * calcIn.accountBalance
       /\ -calcIn.totalPnL < calcIn.rp.maxDrawdown

AllRises(p) == \A i \in Len(p) - 13..Len(p) : p[i] > p[i - 1]
AllFalls(p) == \A i \in Len(p) - 13..Len(p) : p[i] < p[i - 1]

\* C27: calculateRSI with period 14 returns 50 for fewer than 15 prices, 100
\* for at least 15 prices whose last 14 changes are all increases, 0 for at
\* least 15 prices whose last 14 changes are all decreases.
C27_RSIEdges ==
    calcOut.kind = "rsi" =>
        LET p == calcIn.prices IN
        /\ Len(p) < 15 => calcOut.value = <<50, 1>>
        /\ (Len(p) >= 15 /\ AllRises(p)) => calcOut.value = <<100, 1>>
        /\ (Len(p) >= 15 /\ AllFalls(p)) => calcOut.value[1] = 0

\* The index was computed for a series of 16 prices that rises once and
\* then falls 14 times.
C27_Witness ==
    /\ calcOut.kind = "rsi" /\ Len(calcIn.prices) = 16
    /\ calcIn.prices[2] > calcIn.prices[1]
    /\ AllFalls(calcIn.prices) /\ calcOut.value[1] = 0

\* C28: the reconnect scheduled by the k-th consecutive unexpected close
\* since the last successful open (k = 0..4) is delayed by 1000 * 2^k ms, and
\* a successful open puts the count back to 0.
C28_BackoffDoubles ==
    [][\A s \in 1..MaxChain :
          /\ (OnClose(s) /\ sock[s] # "closing" /\ closesSinceOpen <= 4) =>
                /\ Len(timers') = Len(timers) + 1
                /\ timers'[Len(timers')] = 1000 * 2 ^ closesSinceOpen
          /\ OnOpen(s) => reconnectAttempts' = 0]_vars

\* C29: after every step a keep-alive timer runs exactly if the client is
\* connected and there is at most one, and a heartbeat is written only to a
\* socket that is open.
C29_OneKeepAliveWhileConnected ==
    [][/\ Cardinality(intervals') <= 1
       /\ intervals' # {} <=> connectionState' = "connected"
       /\ \A m \in wire' \ wire : m.op = "ping" => sock[m.s] = "open"]_vars

\* The entries a step of the autoManageContracts loop passes without selling.
PassedBy ==
    {k \in DOMAIN activeContracts :
        /\ k > manage.pos
        /\ IF manage'.st = "done" THEN TRUE ELSE k < manage'.pos}

\* The sellContract the loop awaits can never settle: its request was not
\* written, or was written to a socket that has closed since.
AwaitedSellLost ==
    /\ manage.st = "waiting"
    /\ calls[manage.call].st = "pending"
    /\ \A m \in wire : m.op = "autoSell" => sock[m.s] \notin {"connecting", "open"}

\* C30: every step of autoManageContracts sells only an active contract whose
\* matching strategy has a breached limit and passes by no such contract; a
\* failed sell moves the loop on to the next entry; and the loop is never
\* held for ever at one contract while a later one is due to be sold.
C30_AutoManageSellsBreached ==
    [][/\ manage' # manage =>
            /\ \A k \in PassedBy : ~NeedsSell(contractObjs', k)
            /\ \A m \in wire' \ wire : m.op = "autoSell" =>
                  /\ contractObjs'[m.arg[1]].status = "active"
                  /\ NeedsSell(contractObjs', m.arg[2])
       /\ \A m \in wire : RespAutoSell(m, FALSE) =>
             \/ manage'.st = "done"
             \/ manage'.pos > manage.pos
       /\ ~(AwaitedSellLost' /\ FirstToSell(contractObjs', manage'.pos) # 0)]_vars

\* The part of C30 that holds: a sell that the broker refuses is logged and
\* the loop goes on to sell a later contract.
FailedSellThenNext ==
    /\ manage.st = "waiting"
    /\ \E c \in 1..Len(calls) :
          /\ c < manage.call
          /\ calls[c].op = "autoSell" /\ calls[c].st = "rejected"


\* C31: a reduce_position alert sells exactly the truncated half,
\* floor(n/2), of the n active contracts, and none when there is only one.
C31_ReduceSellsTruncatedHalf ==
    (calcOut.kind = "riskAction" /\ calcIn.action = "reduce_position") =>
        Len(calcOut.sold) = HalfTruncated(Len(calcIn.contracts))

\* What reduce_position does sell: the first ceil(n/2) active contracts.
ReduceSellsRoundedUpHalf ==
    /\ calcOut.kind = "riskAction" /\ calcIn.action = "reduce_position"
    /\ Len(calcIn.contracts) = 3
    /\ calcOut.sold = <<1, 2>>

\* C32: once the contracts closed today have realized a loss of at least
\* maxDailyLoss, validateTradeRisk rejects the trade with the daily-loss
\* reason.
C32_DailyLossRejects ==
    (calcOut.kind = "risk" /\ calcIn.closedToday <= -calcIn.rp.maxDailyLoss) =>
        /\ ~calcOut.isValid
        /\ calcOut.reason = "daily loss"

\* A trade validated after today's closed contracts lost maxDailyLoss.
TradeAcceptedAfterDailyLoss ==
    /\ calcOut.kind = "risk" /\ calcOut.isValid
    /\ calcIn.closedToday = -calcIn.rp.maxDailyLoss

\* C33: a Contract whose status is won, lost or sold is immutable: no later
\* step changes the fields the open-contract messages carry (the profit
\* stands for current price, profit, profit percentage, entry and exit spot,
\* which the handler assigns together).
C33_TerminalContractImmutable ==
    [][\A o \in DOMAIN contractObjs :
         contractObjs[o].status \in Terminal
            => contractObjs'[o].profit = contractObjs[o].profit]_vars

\* C34: whatever the interleaving of the buys issued through the trading
\* context, the number of tracked contracts in status active never exceeds
\* riskParameters.maxOpenPositions.
C34_ActiveWithinMaxOpenPositions ==
    Cardinality(TrackedActive) <= ContextRisk.maxOpenPositions

\* C35: every successful buyContract adds a tracked Contract under a local
\* id of its own: the tracked contracts are as many as the Contracts the
\* successful buys created, and no two ids name the same Contract.
C35_EveryBuyTracked ==
    /\ Cardinality(DOMAIN activeContracts) = Cardinality(DOMAIN contractObjs)
    /\ \A k1, k2 \in DOMAIN activeContracts :
          activeContracts[k1] = activeContracts[k2] => k1 = k2

\* The cleanup of a service has returned or thrown.
Settled(c) == c.st \in {"done", "failed"}

\* C36: a cleanup() of ContractManager, MarketDataService or AccountService
\* that waits for its forget requests eventually completes with the
\* service's subscription map empty, whether the connection is up or down and whatever the broker
\* answers to the forget requests.
C36_CleanupCompletes ==
    /\ (cleanup.cm.st = "waiting") ~>
          (Settled(cleanup.cm) /\ DOMAIN contractSubscriptions = {})
    /\ (cleanup.md.st = "waiting") ~>
          (Settled(cleanup.md) /\ \A y \in Symbols : tickSubscriptions[y] = 0)
    /\ (cleanup.acct.st = "waiting") ~>
          (Settled(cleanup.acct) /\ DOMAIN balanceSubscriptions = {})

\* C37: whenever the client reports itself authorized, the socket it sends
\* on is open and is the one an authorize request succeeded on: the flag
\* becomes true only by an authorize response received on the current
\* socket, and while it stays true the current socket stays the same.
C37_AuthorizedOnCurrentSocket ==
    [][/\ isAuthorized' => (ws' # 0 /\ sock'[ws'] = "open")
       /\ (isAuthorized /\ isAuthorized') => ws' = ws
       /\ (~isAuthorized /\ isAuthorized') =>
             \E m \in wire \ wire' : m.op = "authorize" /\ m.s = ws']_vars

\* C38: the balance stored for a tracked account is one the broker produced
\* for that account's login id (or none yet).
C38_BalanceOfOwnAccount ==
    \A l \in DOMAIN accounts : accounts[l].balance \in {"", l}

=============================================================================
